---- MODULE Spec2Model ----
(***************************************************************************)
(* Model of the requirements-gap-analyzer.  The relay server               *)
(* (src/server.js): the POST /api/analyze handler (streaming and           *)
(* non-streaming) with its keep-alive timer, the POST /api/upload-file     *)
(* handler with its temporary file, and the GET /api/monitor/flow/:flowId  *)
(* handler.  The browser client (src/app.js): handleAnalyze with the       *)
(* monitor poller and the component-status display.  One request of each   *)
(* kind is followed from receipt to completion; the upstream flow engine,  *)
(* the caller and the clock are the environment.                           *)
(***************************************************************************)
EXTENDS Integers, Sequences, FiniteSets, TLC

(***************************************************************************)
(* Bounds of the model.                                                    *)
(***************************************************************************)
\* Upstream events delivered by one streamed call.
MaxEvents == 3
\* Clock ticks followed after a request has been received.
MaxTicks == 3

(***************************************************************************)
(* Program constants.                                                      *)
(***************************************************************************)
\* setInterval(..., 30000): the keep-alive period in milliseconds.
KEEPALIVE_INTERVAL == 30000
\* The clock advances in steps of half a keep-alive period.
TickStep == KEEPALIVE_INTERVAL \div 2
MaxClock == MaxTicks * TickStep

(***************************************************************************)
(* JavaScript values that the handlers test for truthiness.                *)
(***************************************************************************)
Undefined == [t |-> "undefined", v |-> ""]
Null == [t |-> "null", v |-> ""]
Str(s) == [t |-> "string", v |-> s]
Num(s) == [t |-> "number", v |-> s]

\* JavaScript truthiness: undefined, null, "" and 0 are falsy.
Truthy(x) ==
  \/ x.t = "string" /\ x.v # ""
  \/ x.t = "number" /\ x.v # "0"

\* a || b
Or(a, b) == IF Truthy(a) THEN a ELSE b

\* Math.round(ms / 1000) for ms >= 0.
RoundSeconds(ms) == (ms + 500) \div 1000

(***************************************************************************)
(* State.                                                                  *)
(***************************************************************************)
VARIABLES
  SERVER_API_KEY,     \* process.env.API_KEY, read once at startup
  clock,              \* Date.now()
  pc,                 \* where the /api/analyze handler stands
  req,                \* the /api/analyze request
  res,                \* its response object
  apiKey,             \* const apiKey = getApiKey(req)
  analysisSessionId,
  runOptions,
  startTime,
  response,           \* const response = await flow.stream(...): whether the
                      \* streamed call has opened
  fullResponse,
  keepAliveInterval,  \* the setInterval timer of the streaming branch
  calls,              \* upstream calls issued (flow.stream / flow.run)
  recv,               \* what the upstream call delivered: the stream events
                      \* received by the for-await loop, or the result of
                      \* the blocking run
  thrown,             \* messages of the errors the upstream call threw
  upPc,               \* where the /api/upload-file handler stands
  upReq,              \* the /api/upload-file request: the file part sent
                      \* and req.file as multer leaves it
  upRes,              \* its response object
  disk,               \* names of the files in the local uploads directory
  unlinks,            \* paths passed to a successful fs.unlinkSync
  upCalls,            \* upstream uploads issued (axios.post)
  monPc,              \* where the /api/monitor/flow/:flowId handler stands
  monReq,             \* the monitor request
  monRes,             \* its response object
  monCalls,           \* upstream monitor queries issued (axios.get)
  monRecv,            \* what the upstream monitor answered (response.data)
  analysisPc,         \* browser: where handleAnalyze stands
  analyses,           \* browser: analyses started so far
  monitoringInterval, \* browser: state.monitoringInterval
  polls,              \* browser: the poll callbacks started, each with its position
  streamingProgressHidden,  \* browser: #streamingProgress has class hidden
                            \* (taken to be so when the page is loaded)
  currentComponentText,     \* browser: textContent of #currentComponent
  handlers,                 \* the locals of each of two /api/analyze requests
                            \* served at the same time
  text,                     \* browser: the argument of parseAnalysisOutput, a
                            \* sequence of characters
  sections,                 \* browser: what parseAnalysisOutput returned
  parseCalls,               \* browser: calls of parseAnalysisOutput so far
  page                      \* browser: the page as handleAnalyze reads and
                            \* writes it (state, buttons, sections, the
                            \* form), and where handleAnalyze stands

analyzeVars ==
  <<clock, pc, req, res, apiKey, analysisSessionId, runOptions, startTime,
    response, fullResponse, keepAliveInterval, calls, recv, thrown>>
uploadVars == <<upPc, upReq, upRes, disk, unlinks, upCalls>>
monitorVars == <<monPc, monReq, monRes, monCalls, monRecv>>
browserVars ==
  <<analysisPc, analyses, monitoringInterval, polls, streamingProgressHidden,
    currentComponentText>>
parseVars == <<text, sections, parseCalls>>
vars == <<SERVER_API_KEY, analyzeVars, uploadVars, monitorVars, browserVars,
         handlers,
         parseVars,
         page>>

(***************************************************************************)
(* Inputs.                                                                 *)
(***************************************************************************)
ServerKeys == {Undefined, Str("srv-key")}
HeaderKeys == {Undefined, Str("hdr-key")}
QueryKeys == {Undefined, Str("qry-key")}
InputValues == {Undefined, Str(""), Str("Analyze the requirements"), Num("5")}
FilePaths == {Undefined, Str("flow1/req.pdf")}
SessionIds == {Undefined, Str("sess-1")}
StreamFlags == {Undefined, Str("true"), Str("false")}

Requests ==
  [xApiKey : HeaderKeys, api_key : QueryKeys, stream : StreamFlags,
   input_value : InputValues, file_path : FilePaths, session_id : SessionIds]

NoRequest ==
  [xApiKey |-> Undefined, api_key |-> Undefined, stream |-> Undefined,
   input_value |-> Undefined, file_path |-> Undefined, session_id |-> Undefined]

\* Events the upstream streamed call can deliver.
UpstreamEvents ==
  { [event |-> "add_message", data |-> [text |-> "m1"]],
    [event |-> "token", data |-> [chunk |-> "a"]],
    [event |-> "token", data |-> [chunk |-> "b"]],
    [event |-> "end", data |-> [result |-> "ab"]] }

\* Messages of the errors the upstream client throws.
ErrorMessages == {"fetch failed"}

\* Results of the blocking upstream run.
RunPayloads == {[outputs |-> "report"], [outputs |-> "no gaps"]}

(***************************************************************************)
(* The response object (Express / Node http.ServerResponse).               *)
(***************************************************************************)
\* out holds the lines written to the caller; destroyed is set once the
\* caller's connection is gone, and lost holds the lines written after that.
NewResponse ==
  [statusCode |-> 200, headersSent |-> FALSE, writableEnded |-> FALSE,
   contentType |-> "", json |-> <<>>, out |-> <<>>,
   destroyed |-> FALSE, lost |-> <<>>]

\* res.status(code).json(body): one complete JSON response.
ResJson(r, code, body) ==
  [r EXCEPT !.statusCode = code, !.headersSent = TRUE, !.writableEnded = TRUE,
            !.contentType = "application/json", !.json = Append(@, body)]

\* res.write(JSON.stringify(event) + '\n'): one NDJSON line; nothing is
\* written once the response has ended.  On a destroyed connection the call
\* returns false without throwing and the line is dropped.
ResWrite(r, event) ==
  IF r.writableEnded THEN r
  ELSE IF r.destroyed THEN [r EXCEPT !.lost = Append(@, event)]
  ELSE [r EXCEPT !.headersSent = TRUE, !.out = Append(@, event)]

\* res.end()
ResEnd(r) == [r EXCEPT !.headersSent = TRUE, !.writableEnded = TRUE]

(***************************************************************************)
(* getApiKey                                                               *)
(***************************************************************************)
getApiKey_NeverNull(key, r) ==
  Or(key, Or(r.xApiKey, Or(r.api_key, Str("anonymous"))))

\* The caller's header is preferred to the configured credential.
getApiKey_HeaderFirst(key, r) == Or(r.xApiKey, Or(key, Or(r.api_key, Null)))

getApiKey(key, r) == Or(key, Or(r.xApiKey, Or(r.api_key, Null)))

(***************************************************************************)
(* The keep-alive timer.                                                   *)
(***************************************************************************)
NoTimer == [state |-> "unset", due |-> 0]

\* setInterval(callback, 30000) at time now.
SetInterval(now) == [state |-> "active", due |-> now + KEEPALIVE_INTERVAL]

\* clearInterval(keepAliveInterval)
ClearInterval(t) == [t EXCEPT !.state = "cleared"]

TimerDue == keepAliveInterval.state = "active" /\ clock >= keepAliveInterval.due

\* const sections = { summary: '', gaps: [], recommendations: [] }
NoSections == [summary |-> <<>>, gaps |-> <<>>, recommendations |-> <<>>]

\* The bytes of a response body whose lines are ls, each ended by a newline
\* as res.write(JSON.stringify(...) + '\n') sends them.
RECURSIVE Wire(_)
Wire(ls) ==
  IF ls = <<>> THEN <<>> ELSE Head(ls) \o <<"\n">> \o Wire(Tail(ls))

\* callAnalysisAPI before its first reader.read(): the body to come (sent
\* records its lines), nothing read, let buffer = '', nothing dispatched.
NewReader(ls) ==
  [sent |-> ls, stream |-> Wire(ls), pos |-> 0, buffer |-> <<>>,
   dispatched |-> <<>>, rPc |-> "reading", splitLine |-> FALSE]

\* The state after start-up and page load, parseAnalysisOutput not yet
\* called, with t the text it will be called with and ls the lines of the
\* response body the stream reader will be given.
InitWith(t, ls) ==
  /\ SERVER_API_KEY \in ServerKeys
  /\ clock = 0
  /\ pc = "idle"
  /\ req = NoRequest
  /\ res = NewResponse
  /\ apiKey = Null
  /\ analysisSessionId = Undefined
  /\ runOptions = [session_id |-> Undefined]
  /\ startTime = 0
  /\ response = "unset"
  /\ fullResponse = Str("")
  /\ keepAliveInterval = NoTimer
  /\ calls = <<>>
  /\ recv = <<>>
  /\ thrown = <<>>
  /\ upPc = "idle"
  /\ upReq = [part |-> <<>>, file |-> <<>>, xApiKey |-> Undefined, api_key |-> Undefined]
  /\ upRes = NewResponse
  /\ disk = {}
  /\ unlinks = <<>>
  /\ upCalls = <<>>
  /\ monPc = "idle"
  /\ monReq = [xApiKey |-> Undefined, api_key |-> Undefined, flowId |-> ""]
  /\ monRes = NewResponse
  /\ monCalls = <<>>
  /\ monRecv = <<>>
  /\ analysisPc = "idle"
  /\ analyses = 0
  /\ monitoringInterval = "null"
  /\ polls = <<>>
  /\ streamingProgressHidden = TRUE
  /\ currentComponentText = <<>>
  /\ handlers = [i \in {1, 2} |->
                   [pc |-> "idle", res |-> NewResponse,
                    keepAliveInterval |-> NoTimer, fullResponse |-> Str(""),
                    analysisSessionId |-> Undefined, startTime |-> 0,
                    recv |-> <<>>]]
  /\ text = t
  /\ sections = NoSections
  /\ parseCalls = 0
  /\ page = [hPc |-> "idle", clicks |-> 0,
             form |-> [confluenceUrl |-> <<>>, githubUrl |-> <<>>,
                       file |-> "none", flow_id |-> Null],
             isLoading |-> FALSE, error |-> Null, results |-> Null,
             uploadedFile |-> Null, section |-> "none",
             analyzeBtnDisabled |-> FALSE,
             downloadBtn |-> [disabled |-> TRUE, hidden |-> TRUE],
             summaryText |-> [text |-> <<>>, cursor |-> FALSE],
             filePath |-> Null, fetches |-> <<>>, uploadOutcome |-> "none",
             streamLines |-> 0, sawEnd |-> FALSE, streamErrors |-> <<>>,
             tokens |-> <<>>, timers |-> 0,
             lastClick |-> [confluenceUrl |-> <<>>, githubUrl |-> <<>>,
                            file |-> "none", flow_id |-> Null],
             reader |-> NewReader(ls)]

Init == InitWith(<<>>, <<>>)


(***************************************************************************)
(* POST /api/analyze: the synchronous part of the handler, from the        *)
(* receipt of the request to its first await or to its response.           *)
(***************************************************************************)
\* !input_value
InputMissing_UndefinedOnly(r) == r.input_value = Undefined

InputMissing(r) == ~Truthy(r.input_value)

\* req.query.stream === 'true'
useStreaming(r) == r.stream = Str("true")

\* The identifier is always generated by the server.
SessionIdFor_AlwaysGenerated(r, now) == Str("analysis_" \o ToString(now))

\* session_id || `analysis_${Date.now()}`
SessionIdFor(r, now) == Or(r.session_id, Str("analysis_" \o ToString(now)))

\* runOptions without the File component tweak.
RunOptionsFor_TweakDropped(r, now) == [session_id |-> SessionIdFor(r, now)]

\* runOptions, with the File component tweak when file_path is truthy.
RunOptionsFor(r, now) ==
  IF Truthy(r.file_path)
    THEN [session_id |-> SessionIdFor(r, now),
          tweaks |-> [File_hqkLd |-> [path |-> <<r.file_path>>]]]
    ELSE [session_id |-> SessionIdFor(r, now)]

\* The request passes both checks and input_value has a substring method.
Validated(r) ==
  /\ Truthy(getApiKey(SERVER_API_KEY, r))
  /\ ~InputMissing(r)
  /\ r.input_value.t = "string"

StartEvent == [type |-> "start", message |-> "Analysis started..."]

\* No credential: 401, nothing else happens.
Analyze401(r) ==
  /\ pc = "idle"
  /\ ~Truthy(getApiKey(SERVER_API_KEY, r))
  /\ req' = r
  /\ apiKey' = getApiKey(SERVER_API_KEY, r)
  /\ res' = IF ~res.headersSent
              THEN ResJson(res, 401, [error |-> "API key required"])
              ELSE res
  /\ pc' = "done"
  /\ UNCHANGED <<SERVER_API_KEY, clock, analysisSessionId, runOptions, startTime,
                 response, fullResponse, keepAliveInterval, calls, recv, thrown, uploadVars, monitorVars,
                 browserVars, handlers, parseVars, page>>

\* No input_value: 400, nothing else happens.
Analyze400(r) ==
  /\ pc = "idle"
  /\ Truthy(getApiKey(SERVER_API_KEY, r))
  /\ InputMissing(r)
  /\ req' = r
  /\ apiKey' = getApiKey(SERVER_API_KEY, r)
  /\ res' = IF ~res.headersSent
              THEN ResJson(res, 400, [error |-> "input_value is required"])
              ELSE res
  /\ pc' = "done"
  /\ UNCHANGED <<SERVER_API_KEY, clock, analysisSessionId, runOptions, startTime,
                 response, fullResponse, keepAliveInterval, calls, recv, thrown, uploadVars, monitorVars,
                 browserVars, handlers, parseVars, page>>

\* A truthy input_value that is no string: input_value.substring(...) throws
\* a TypeError before anything is written, and the outer catch answers 500.
AnalyzeTypeError(r) ==
  /\ pc = "idle"
  /\ Truthy(getApiKey(SERVER_API_KEY, r))
  /\ ~InputMissing(r)
  /\ r.input_value.t # "string"
  /\ req' = r
  /\ apiKey' = getApiKey(SERVER_API_KEY, r)
  /\ res' = IF ~res.headersSent
              THEN ResJson(res, 500,
                     [error |-> "Analysis failed",
                      details |-> "input_value.substring is not a function"])
              ELSE res
  /\ pc' = "done"
  /\ UNCHANGED <<SERVER_API_KEY, clock, analysisSessionId, runOptions, startTime,
                 response, fullResponse, keepAliveInterval, calls, recv, thrown, uploadVars, monitorVars,
                 browserVars, handlers, parseVars, page>>

\* Streaming mode: headers, the start event, the keep-alive timer, and the
\* streamed upstream call is issued; the handler awaits its opening.
AnalyzeStreamStart(r) ==
  /\ pc = "idle"
  /\ Validated(r)
  /\ useStreaming(r)
  /\ req' = r
  /\ apiKey' = getApiKey(SERVER_API_KEY, r)
  /\ analysisSessionId' = SessionIdFor(r, clock)
  /\ runOptions' = RunOptionsFor(r, clock)
  /\ startTime' = clock
  /\ res' = ResWrite([res EXCEPT !.contentType = "application/x-ndjson"], StartEvent)
  /\ keepAliveInterval' = SetInterval(clock)
  /\ calls' = Append(calls, [op |-> "stream", input |-> r.input_value,
                             options |-> RunOptionsFor(r, clock),
                             apiKey |-> getApiKey(SERVER_API_KEY, r)])
  /\ pc' = "opening"
  /\ UNCHANGED <<SERVER_API_KEY, clock, response, fullResponse, recv, thrown, uploadVars, monitorVars,
                 browserVars, handlers, parseVars, page>>

\* Non-streaming mode: the blocking upstream call is issued and awaited.
AnalyzeRunStart(r) ==
  /\ pc = "idle"
  /\ Validated(r)
  /\ ~useStreaming(r)
  /\ req' = r
  /\ apiKey' = getApiKey(SERVER_API_KEY, r)
  /\ analysisSessionId' = SessionIdFor(r, clock)
  /\ runOptions' = RunOptionsFor(r, clock)
  /\ startTime' = clock
  /\ calls' = Append(calls, [op |-> "run", input |-> r.input_value,
                             options |-> RunOptionsFor(r, clock),
                             apiKey |-> getApiKey(SERVER_API_KEY, r)])
  /\ pc' = "running"
  /\ UNCHANGED <<SERVER_API_KEY, clock, res, response, fullResponse, keepAliveInterval,
                 recv, thrown, uploadVars, monitorVars,
                 browserVars, handlers, parseVars, page>>


(***************************************************************************)
(* The streaming branch after the upstream call was issued.                *)
(***************************************************************************)
ErrorEvent(msg, elapsedMs) ==
  [type |-> "error",
   error |-> "Stream error after " \o ToString(RoundSeconds(elapsedMs))
               \o "s: " \o msg,
   elapsed_seconds |-> RoundSeconds(elapsedMs)]

\* What the loop body writes for one upstream event.
LoopWrites(event, sid, elapsedMs) ==
  CASE event.event = "add_message" ->
         <<[type |-> "add_message", data |-> event.data]>>
    [] event.event = "token" ->
         <<[type |-> "token", data |-> Str(event.data.chunk)]>>
    [] event.event = "end" ->
         <<[type |-> "end", session_id |-> sid, elapsed_ms |-> elapsedMs,
            data |-> event.data]>>
    [] OTHER -> <<>>

\* The accumulator after one upstream event: a string that grows by the
\* chunks (an object on the left of += is turned into "[object Object]"),
\* then the data of `end`.
Accumulate(acc, event) ==
  CASE event.event = "token" ->
         Str((IF "v" \in DOMAIN acc THEN acc.v ELSE "[object Object]")
               \o event.data.chunk)
    [] event.event = "end" -> event.data
    [] OTHER -> acc

\* The loop goes on to the next upstream event unless the event is `end`
\* (break).
LoopContinues_NoBreak(event) == TRUE

LoopContinues(event) == event.event # "end"

RECURSIVE ResWriteAll(_, _)
ResWriteAll(r, events) ==
  IF events = <<>> THEN r
  ELSE ResWriteAll(ResWrite(r, Head(events)), Tail(events))

\* A catch that answers as the non-streaming branch does.
StreamCatch_JsonError(msg) ==
  /\ keepAliveInterval' = ClearInterval(keepAliveInterval)
  /\ res' = ResJson(res, 500, [error |-> "Analysis failed", details |-> msg])
  /\ thrown' = Append(thrown, msg)
  /\ pc' = "done"

\* catch (streamError): cancel the timer, write the error event if the
\* response has not ended, end the response.
StreamCatch(msg) ==
  /\ keepAliveInterval' = ClearInterval(keepAliveInterval)
  /\ res' = ResEnd(IF ~res.writableEnded
                     THEN ResWrite(res, ErrorEvent(msg, clock - startTime))
                     ELSE res)
  /\ thrown' = Append(thrown, msg)
  /\ pc' = "done"

\* The loop is left without ending the response.
StreamFinish_NoEnd ==
  /\ keepAliveInterval' = ClearInterval(keepAliveInterval)
  /\ res' = res
  /\ pc' = "done"

\* The loop is left with the timer still armed.
StreamFinish_TimerLeft ==
  /\ keepAliveInterval' = keepAliveInterval
  /\ res' = ResEnd(res)
  /\ pc' = "done"

\* The loop was left without an exception: cancel the timer, end the response.
StreamFinish ==
  /\ keepAliveInterval' = ClearInterval(keepAliveInterval)
  /\ res' = ResEnd(res)
  /\ pc' = "done"

\* await flow.stream(...) resolves with the event sequence.
StreamOpened ==
  /\ pc = "opening"
  /\ response' = "stream"
  /\ pc' = "iterating"
  /\ UNCHANGED <<SERVER_API_KEY, clock, req, res, apiKey, analysisSessionId,
                 runOptions, startTime, fullResponse, keepAliveInterval, calls,
                 recv, thrown, uploadVars, monitorVars,
                 browserVars, handlers, parseVars, page>>

\* await flow.stream(...) rejects.
StreamOpenFails(msg) ==
  /\ pc = "opening"
  /\ StreamCatch(msg)
  /\ UNCHANGED <<SERVER_API_KEY, clock, req, apiKey, analysisSessionId,
                 runOptions, startTime, response, fullResponse, calls, recv, uploadVars, monitorVars,
                 browserVars, handlers, parseVars, page>>

\* The timer is re-armed by every upstream event.
TimerAfterEvent_Rearmed(t, now) ==
  IF t.state = "active" THEN SetInterval(now) ELSE t

\* The loop body leaves the timer alone.
TimerAfterEvent(t, now) == t

\* One iteration of for await (const event of response).  After `end` the
\* loop breaks, which closes the iterator: the handler awaits its return().
UpstreamEvent(event) ==
  /\ pc = "iterating"
  /\ Len(recv) < MaxEvents
  /\ recv' = Append(recv, event)
  /\ res' = ResWriteAll(res, LoopWrites(event, analysisSessionId, clock - startTime))
  /\ fullResponse' = Accumulate(fullResponse, event)
  /\ keepAliveInterval' = TimerAfterEvent(keepAliveInterval, clock)
  /\ pc' = IF LoopContinues(event) THEN "iterating" ELSE "closing"
  /\ UNCHANGED <<SERVER_API_KEY, clock, req, apiKey, analysisSessionId,
                 runOptions, startTime, response, calls, thrown, uploadVars, monitorVars,
                 browserVars, handlers, parseVars, page>>

\* The upstream sequence is exhausted: the loop ends without `end`.
UpstreamExhausted ==
  /\ pc = "iterating"
  /\ StreamFinish
  /\ UNCHANGED <<SERVER_API_KEY, clock, req, apiKey, analysisSessionId,
                 runOptions, startTime, response, fullResponse, calls, recv, thrown,
                 uploadVars, monitorVars,
                 browserVars, handlers, parseVars, page>>

\* The iterator's next() rejects.
UpstreamThrows(msg) ==
  /\ pc = "iterating"
  /\ StreamCatch(msg)
  /\ UNCHANGED <<SERVER_API_KEY, clock, req, apiKey, analysisSessionId,
                 runOptions, startTime, response, fullResponse, calls, recv, uploadVars, monitorVars,
                 browserVars, handlers, parseVars, page>>

\* The iterator's return() resolves after the break.
IteratorClosed ==
  /\ pc = "closing"
  /\ StreamFinish
  /\ UNCHANGED <<SERVER_API_KEY, clock, req, apiKey, analysisSessionId,
                 runOptions, startTime, response, fullResponse, calls, recv, thrown,
                 uploadVars, monitorVars,
                 browserVars, handlers, parseVars, page>>

\* The iterator's return() rejects after the break.
IteratorCloseFails(msg) ==
  /\ pc = "closing"
  /\ StreamCatch(msg)
  /\ UNCHANGED <<SERVER_API_KEY, clock, req, apiKey, analysisSessionId,
                 runOptions, startTime, response, fullResponse, calls, recv, uploadVars, monitorVars,
                 browserVars, handlers, parseVars, page>>

\* The setInterval callback: one keepalive line, and the timer is re-armed.
\* It runs between the handler's awaits, whenever the timer is due.
KeepAliveFire ==
  /\ TimerDue
  /\ res' = ResWrite(res, [type |-> "keepalive", timestamp |-> clock])
  /\ keepAliveInterval' =
       [keepAliveInterval EXCEPT !.due = clock + KEEPALIVE_INTERVAL]
  /\ UNCHANGED <<SERVER_API_KEY, clock, pc, req, apiKey, analysisSessionId,
                 runOptions, startTime, response, fullResponse, calls, recv, thrown,
                 uploadVars, monitorVars,
                 browserVars, handlers, parseVars, page>>

\* Time passes.  The event loop runs a due timer before it waits again, so
\* the clock does not pass a due timer.  The clock is followed from the
\* receipt of the request for as long as the handler or its timer is live.
Tick ==
  /\ pc # "idle"
  /\ pc # "done" \/ keepAliveInterval.state = "active"
  /\ clock < MaxClock
  /\ ~TimerDue
  /\ clock' = clock + TickStep
  /\ UNCHANGED <<SERVER_API_KEY, pc, req, res, apiKey, analysisSessionId,
                 runOptions, startTime, response, fullResponse, keepAliveInterval, calls,
                 recv, thrown, uploadVars, monitorVars,
                 browserVars, handlers, parseVars, page>>

(***************************************************************************)
(* The non-streaming branch after the upstream call was issued.            *)
(***************************************************************************)
\* The body carries a summary in place of the upstream result.
RunResolves_Summarised(payload) ==
  /\ pc = "running"
  /\ recv' = Append(recv, [event |-> "result", data |-> payload])
  /\ res' = ResJson(res, 200,
              [success |-> TRUE, session_id |-> analysisSessionId,
               elapsed_ms |-> clock - startTime,
               response |-> [outputs |-> "report"]])
  /\ pc' = "done"
  /\ UNCHANGED <<SERVER_API_KEY, clock, req, apiKey, analysisSessionId,
                 runOptions, startTime, response, fullResponse, keepAliveInterval,
                 calls, thrown, uploadVars, monitorVars, browserVars,
                 handlers, parseVars, page>>

\* await flow.run(...) resolves; the result is sent whole.
RunResolves(payload) ==
  /\ pc = "running"
  /\ recv' = Append(recv, [event |-> "result", data |-> payload])
  /\ res' = ResJson(res, 200,
              [success |-> TRUE, session_id |-> analysisSessionId,
               elapsed_ms |-> clock - startTime, response |-> payload])
  /\ pc' = "done"
  /\ UNCHANGED <<SERVER_API_KEY, clock, req, apiKey, analysisSessionId,
                 runOptions, startTime, response, fullResponse, keepAliveInterval,
                 calls, thrown, uploadVars, monitorVars, browserVars,
                 handlers, parseVars, page>>

\* A failed run is issued a second time before the request is failed.
RunRejects_RetryOnce(msg) ==
  /\ pc = "running"
  /\ thrown' = Append(thrown, msg)
  /\ IF thrown = <<>>
       THEN /\ calls' = Append(calls, calls[1])
            /\ UNCHANGED <<res, pc, handlers, parseVars, page>>
       ELSE /\ res' = ResJson(res, 500,
                        [error |-> "Analysis failed", details |-> msg])
            /\ pc' = "done"
            /\ UNCHANGED calls
  /\ UNCHANGED <<SERVER_API_KEY, clock, req, apiKey, analysisSessionId,
                 runOptions, startTime, response, fullResponse, keepAliveInterval,
                 recv, uploadVars, monitorVars,
                 browserVars, handlers, parseVars, page>>

\* await flow.run(...) rejects: the outer catch answers 500.
RunRejects(msg) ==
  /\ pc = "running"
  /\ res' = IF ~res.headersSent
              THEN ResJson(res, 500,
                     [error |-> "Analysis failed", details |-> msg])
              ELSE res
  /\ thrown' = Append(thrown, msg)
  /\ pc' = "done"
  /\ UNCHANGED <<SERVER_API_KEY, clock, req, apiKey, analysisSessionId,
                 runOptions, startTime, response, fullResponse, keepAliveInterval, calls,
                 recv, uploadVars, monitorVars,
                 browserVars, handlers, parseVars, page>>

Next ==
  \/ \E r \in Requests : Analyze401(r)
  \/ \E r \in Requests : Analyze400(r)
  \/ \E r \in Requests : AnalyzeTypeError(r)
  \/ \E r \in Requests : AnalyzeStreamStart(r)
  \/ \E r \in Requests : AnalyzeRunStart(r)
  \/ StreamOpened
  \/ \E msg \in ErrorMessages : StreamOpenFails(msg)
  \/ \E event \in UpstreamEvents : UpstreamEvent(event)
  \/ UpstreamExhausted
  \/ \E msg \in ErrorMessages : UpstreamThrows(msg)
  \/ IteratorClosed
  \/ \E msg \in ErrorMessages : IteratorCloseFails(msg)
  \/ KeepAliveFire
  \/ Tick
  \/ \E payload \in RunPayloads : RunResolves(payload)
  \/ \E msg \in ErrorMessages : RunRejects(msg)

Spec == Init /\ [][Next]_vars

\* The caller goes away in mid-stream: its connection is destroyed.  The
\* handler registers no listener for it.
ClientDisconnects ==
  /\ pc \in {"opening", "iterating", "closing"}
  /\ ~res.destroyed
  /\ res' = [res EXCEPT !.destroyed = TRUE]
  /\ UNCHANGED <<SERVER_API_KEY, clock, pc, req, apiKey, analysisSessionId,
                 runOptions, startTime, response, fullResponse, keepAliveInterval,
                 calls, recv, thrown, uploadVars, monitorVars,
                 browserVars, handlers, parseVars, page>>

NextDisconnect ==
  \/ Next
  \/ ClientDisconnects

SpecDisconnect == Init /\ [][NextDisconnect]_vars

\* The awaited close of the upstream iterator settles: once the promise of
\* return() is resolved or rejected, the handler's continuation runs.
IteratorCloseSettles ==
  \/ IteratorClosed
  \/ \E msg \in ErrorMessages : IteratorCloseFails(msg)

SpecFair == Spec /\ WF_vars(IteratorCloseSettles)


(***************************************************************************)
(* POST /api/upload-file                                                   *)
(***************************************************************************)
\* limits.fileSize
MAX_FILE_SIZE == 10 * 1024 * 1024

allowedMimes ==
  {"text/plain", "application/pdf", "application/msword",
   "application/vnd.openxmlformats-officedocument.wordprocessingml.document",
   "text/markdown", "application/json"}

\* The file part of the multipart body, if any.
UploadParts ==
  [originalname : {"req.pdf"},
   mimetype : {"application/pdf", "text/plain", "image/png"},
   size : {2048, MAX_FILE_SIZE, MAX_FILE_SIZE + 1}]

UploadRequests ==
  [part : {<<>>} \cup {<<p>> : p \in UploadParts},
   xApiKey : HeaderKeys, api_key : QueryKeys]

\* What the upstream file store answers with a 2xx status: an object with
\* the storage path, or a body that parses to null.
UploadAnswers ==
  {[t |-> "object", file_path |-> "flow1/req.pdf"], [t |-> "null", file_path |-> ""]}

\* storage.filename: `${uniqueSuffix}-${file.originalname}` under uploads/.
StoredPath(part) == "uploads/0-1-" \o part.originalname

\* multer: no file part in the request; the handler runs without req.file.
MulterNoFile(u) ==
  /\ upPc = "idle"
  /\ u.part = <<>>
  /\ upReq' = [part |-> u.part, file |-> <<>>,
               xApiKey |-> u.xApiKey, api_key |-> u.api_key]
  /\ upPc' = "handler"
  /\ UNCHANGED <<SERVER_API_KEY, analyzeVars, monitorVars, browserVars, upRes, disk, unlinks, upCalls,
                 handlers, parseVars, page>>

\* multer: the fileFilter refuses the MIME type, or the size limit is hit
\* while storing (multer removes what it stored); the error goes to Express's
\* default error handler and the route handler never runs.
MulterRejects(u) ==
  /\ upPc = "idle"
  /\ u.part # <<>>
  /\ \/ u.part[1].mimetype \notin allowedMimes
     \/ u.part[1].size > MAX_FILE_SIZE
  /\ upReq' = [part |-> u.part, file |-> <<>>,
               xApiKey |-> u.xApiKey, api_key |-> u.api_key]
  /\ upRes' = [upRes EXCEPT !.statusCode = 500, !.headersSent = TRUE,
                            !.writableEnded = TRUE, !.contentType = "text/html"]
  /\ upPc' = "done"
  /\ UNCHANGED <<SERVER_API_KEY, analyzeVars, monitorVars, browserVars, disk, unlinks, upCalls,
                 handlers, parseVars, page>>

\* multer: the file is accepted and written to the uploads directory.
MulterStores(u) ==
  /\ upPc = "idle"
  /\ u.part # <<>>
  /\ u.part[1].mimetype \in allowedMimes
  /\ u.part[1].size <= MAX_FILE_SIZE
  /\ upReq' = [part |-> u.part,
               file |-> <<[path |-> StoredPath(u.part[1]),
                           originalname |-> u.part[1].originalname,
                           mimetype |-> u.part[1].mimetype,
                           size |-> u.part[1].size]>>,
               xApiKey |-> u.xApiKey, api_key |-> u.api_key]
  /\ disk' = disk \cup {StoredPath(u.part[1])}
  /\ upPc' = "handler"
  /\ UNCHANGED <<SERVER_API_KEY, analyzeVars, monitorVars, browserVars, upRes, unlinks, upCalls,
                 handlers, parseVars, page>>

\* !req.file: 400.
UploadNoFile ==
  /\ upPc = "handler"
  /\ upReq.file = <<>>
  /\ upRes' = ResJson(upRes, 400, [error |-> "No file uploaded"])
  /\ upPc' = "done"
  /\ UNCHANGED <<SERVER_API_KEY, analyzeVars, monitorVars, browserVars, upReq, disk, unlinks, upCalls,
                 handlers, parseVars, page>>

\* fs.unlinkSync(path): the call is logged, and the file is gone after it.
UnlinkSync(fs, path) ==
  [disk |-> fs.disk \ {path}, unlinks |-> Append(fs.unlinks, path)]

\* The missing credential is answered as a forbidden request.
Upload401_Forbidden ==
  /\ upPc = "handler"
  /\ upReq.file # <<>>
  /\ ~Truthy(getApiKey(SERVER_API_KEY, upReq))
  /\ LET fs == UnlinkSync([disk |-> disk, unlinks |-> unlinks], upReq.file[1].path)
     IN /\ disk' = fs.disk
        /\ unlinks' = fs.unlinks
  /\ upRes' = ResJson(upRes, 403, [error |-> "API key required"])
  /\ upPc' = "done"
  /\ UNCHANGED <<SERVER_API_KEY, analyzeVars, monitorVars, browserVars, upReq, upCalls,
                 handlers, parseVars, page>>

\* No credential: the temporary file is deleted, then 401.
Upload401 ==
  /\ upPc = "handler"
  /\ upReq.file # <<>>
  /\ ~Truthy(getApiKey(SERVER_API_KEY, upReq))
  /\ LET fs == UnlinkSync([disk |-> disk, unlinks |-> unlinks], upReq.file[1].path)
     IN /\ disk' = fs.disk
        /\ unlinks' = fs.unlinks
  /\ upRes' = ResJson(upRes, 401, [error |-> "API key required"])
  /\ upPc' = "done"
  /\ UNCHANGED <<SERVER_API_KEY, analyzeVars, monitorVars, browserVars, upReq, upCalls,
                 handlers, parseVars, page>>

\* The file is posted to the upstream file store; the handler awaits it.
UploadStart ==
  /\ upPc = "handler"
  /\ upReq.file # <<>>
  /\ Truthy(getApiKey(SERVER_API_KEY, upReq))
  /\ upCalls' = Append(upCalls,
                  [filename |-> upReq.file[1].originalname,
                   contentType |-> upReq.file[1].mimetype,
                   apiKey |-> getApiKey(SERVER_API_KEY, upReq)])
  /\ upPc' = "uploading"
  /\ UNCHANGED <<SERVER_API_KEY, analyzeVars, monitorVars, browserVars, upReq, upRes, disk, unlinks,
                 handlers, parseVars, page>>

\* The catch deletes whenever there is a req.file.
CatchCleanup_NoExistsCheck(fs, file) ==
  IF file # <<>> THEN UnlinkSync(fs, file[1].path) ELSE fs

\* if (req.file && fs.existsSync(req.file.path)) fs.unlinkSync(req.file.path)
CatchCleanup(fs, file) ==
  IF file # <<>> /\ file[1].path \in fs.disk
    THEN UnlinkSync(fs, file[1].path)
    ELSE fs

\* catch (err), entered with the file system as fs: clean up, then 500.
UploadCatch(fs, msg) ==
  /\ disk' = CatchCleanup(fs, upReq.file).disk
  /\ unlinks' = CatchCleanup(fs, upReq.file).unlinks
  /\ upRes' = ResJson(upRes, 500, [error |-> "File upload failed", details |-> msg])
  /\ upPc' = "done"

\* The success response is sent with the temporary file left in place.
UploadResolves_FileKept(answer) ==
  /\ upPc = "uploading"
  /\ answer.t = "object"
  /\ upRes' = ResJson(upRes, 200,
                [success |-> TRUE, file_path |-> answer.file_path,
                 original_name |-> upReq.file[1].originalname,
                 message |-> "Requirements file uploaded successfully"])
  /\ upPc' = "done"
  /\ UNCHANGED <<SERVER_API_KEY, analyzeVars, monitorVars, browserVars, upReq, upCalls,
                 disk, unlinks, handlers, parseVars, page>>

\* axios.post resolves: the temporary file is deleted and the storage path
\* is returned.
UploadResolves(answer) ==
  /\ upPc = "uploading"
  /\ answer.t = "object"
  /\ LET fs == UnlinkSync([disk |-> disk, unlinks |-> unlinks], upReq.file[1].path)
     IN /\ disk' = fs.disk
        /\ unlinks' = fs.unlinks
  /\ upRes' = ResJson(upRes, 200,
                [success |-> TRUE, file_path |-> answer.file_path,
                 original_name |-> upReq.file[1].originalname,
                 message |-> "Requirements file uploaded successfully"])
  /\ upPc' = "done"
  /\ UNCHANGED <<SERVER_API_KEY, analyzeVars, monitorVars, browserVars, upReq, upCalls,
                 handlers, parseVars, page>>

\* axios.post resolves with a null body: the temporary file is deleted, then
\* uploadResponse.data.file_path throws and the catch runs with the file gone.
UploadResolvesNull(answer) ==
  /\ upPc = "uploading"
  /\ answer.t = "null"
  /\ UploadCatch(UnlinkSync([disk |-> disk, unlinks |-> unlinks], upReq.file[1].path),
                 "Cannot read properties of null (reading 'file_path')")
  /\ UNCHANGED <<SERVER_API_KEY, analyzeVars, monitorVars, browserVars, upReq, upCalls,
                 handlers, parseVars, page>>

\* axios.post rejects.
UploadRejects(msg) ==
  /\ upPc = "uploading"
  /\ UploadCatch([disk |-> disk, unlinks |-> unlinks], msg)
  /\ UNCHANGED <<SERVER_API_KEY, analyzeVars, monitorVars, browserVars, upReq, upCalls,
                 handlers, parseVars, page>>

NextUpload ==
  \/ \E u \in UploadRequests : MulterNoFile(u)
  \/ \E u \in UploadRequests : MulterRejects(u)
  \/ \E u \in UploadRequests : MulterStores(u)
  \/ UploadNoFile
  \/ Upload401
  \/ UploadStart
  \/ \E answer \in UploadAnswers : UploadResolves(answer)
  \/ \E answer \in UploadAnswers : UploadResolvesNull(answer)
  \/ \E msg \in ErrorMessages : UploadRejects(msg)

SpecUpload == Init /\ [][NextUpload]_vars


(***************************************************************************)
(* GET /api/monitor/flow/:flowId                                           *)
(***************************************************************************)
FlowIds == {"flow-1", "flow-2"}

MonitorRequests == [xApiKey : HeaderKeys, api_key : QueryKeys, flowId : FlowIds]

\* Component names, as sequences of characters.
AgentGapFinder ==
  <<"A", "g", "e", "n", "t", "-", "G", "a", "p", "_", "F", "i", "n", "d", "e", "r">>
FileReader == <<"F", "i", "l", "e", "-", "R", "e", "a", "d", "e", "r">>

\* One entry of vertex_builds: a component name with its builds, each build
\* reduced to the name of the last entry of its logs.response.
ComponentBuilds ==
  { [name |-> AgentGapFinder, builds |-> <<>>],
    [name |-> AgentGapFinder, builds |-> <<[lastLog |-> "Chain Start"]>>],
    [name |-> FileReader, builds |-> <<[lastLog |-> "Chain End"]>>] }

\* What the upstream monitor answers (response.data): an object with or
\* without vertex_builds, whose keys are in insertion order.
MonitorBuilds ==
  {[has_vertex_builds |-> FALSE, vertex_builds |-> <<>>],
   [has_vertex_builds |-> TRUE, vertex_builds |-> <<>>]}
  \cup {[has_vertex_builds |-> TRUE, vertex_builds |-> <<c>>] : c \in ComponentBuilds}

\* No credential: 401.
Monitor401(m) ==
  /\ monPc = "idle"
  /\ ~Truthy(getApiKey(SERVER_API_KEY, m))
  /\ monReq' = m
  /\ monRes' = ResJson(monRes, 401, [error |-> "API key required"])
  /\ monPc' = "done"
  /\ UNCHANGED <<SERVER_API_KEY, analyzeVars, uploadVars, browserVars, monCalls,
                 monRecv, handlers, parseVars, page>>

\* The upstream monitor is queried for the flow; the handler awaits it.
MonitorStart(m) ==
  /\ monPc = "idle"
  /\ Truthy(getApiKey(SERVER_API_KEY, m))
  /\ monReq' = m
  /\ monCalls' = Append(monCalls, [flow_id |-> m.flowId,
                                   apiKey |-> getApiKey(SERVER_API_KEY, m)])
  /\ monPc' = "fetching"
  /\ UNCHANGED <<SERVER_API_KEY, analyzeVars, uploadVars, browserVars, monRes,
                 monRecv, handlers, parseVars, page>>

\* The body carries the vertex builds alone, whatever else was answered.
MonitorResolves_VertexBuildsOnly(builds) ==
  /\ monPc = "fetching"
  /\ monRecv' = Append(monRecv, builds)
  /\ monRes' = ResJson(monRes, 200,
                 [success |-> TRUE,
                  builds |-> [has_vertex_builds |-> TRUE,
                              vertex_builds |-> builds.vertex_builds]])
  /\ monPc' = "done"
  /\ UNCHANGED <<SERVER_API_KEY, analyzeVars, uploadVars, browserVars, monReq, monCalls,
                 handlers, parseVars, page>>

\* axios.get resolves: the payload is wrapped and returned.
MonitorResolves(builds) ==
  /\ monPc = "fetching"
  /\ monRecv' = Append(monRecv, builds)
  /\ monRes' = ResJson(monRes, 200, [success |-> TRUE, builds |-> builds])
  /\ monPc' = "done"
  /\ UNCHANGED <<SERVER_API_KEY, analyzeVars, uploadVars, browserVars, monReq, monCalls,
                 handlers, parseVars, page>>

\* axios.get rejects: 500 with the error detail.
MonitorRejects(msg) ==
  /\ monPc = "fetching"
  /\ monRes' = ResJson(monRes, 500,
                 [error |-> "Failed to get monitor data", details |-> msg])
  /\ monPc' = "done"
  /\ UNCHANGED <<SERVER_API_KEY, analyzeVars, uploadVars, browserVars, monReq, monCalls,
                 monRecv, handlers, parseVars, page>>

NextMonitor ==
  \/ \E m \in MonitorRequests : Monitor401(m)
  \/ \E m \in MonitorRequests : MonitorStart(m)
  \/ \E builds \in MonitorBuilds : MonitorResolves(builds)
  \/ \E msg \in ErrorMessages : MonitorRejects(msg)

SpecMonitor == Init /\ [][NextMonitor]_vars

(***************************************************************************)
(* A monitor request handled while a streaming analysis request is in      *)
(* flight: the steps of the two handlers interleave freely.                *)
(***************************************************************************)
\* Streaming analysis requests with a valid input, with or without the
\* x-api-key header.
InFlightRequests ==
  {r \in Requests :
     /\ r.stream = Str("true")
     /\ r.input_value = Str("Analyze the requirements")
     /\ r.api_key = Undefined
     /\ r.file_path = Undefined
     /\ r.session_id = Undefined}

\* Monitor requests for one flow, with or without the x-api-key header.
InFlightMonitorRequests ==
  {m \in MonitorRequests : m.api_key = Undefined /\ m.flowId = "flow-1"}

NextAnalyzeInFlight ==
  \/ \E r \in InFlightRequests : Analyze401(r)
  \/ \E r \in InFlightRequests : AnalyzeStreamStart(r)
  \/ StreamOpened
  \/ \E msg \in ErrorMessages : StreamOpenFails(msg)
  \/ \E event \in UpstreamEvents : UpstreamEvent(event)
  \/ UpstreamExhausted
  \/ \E msg \in ErrorMessages : UpstreamThrows(msg)
  \/ IteratorClosed
  \/ \E msg \in ErrorMessages : IteratorCloseFails(msg)
  \/ KeepAliveFire
  \/ Tick

NextMonitorInFlight ==
  \/ \E m \in InFlightMonitorRequests : Monitor401(m)
  \/ \E m \in InFlightMonitorRequests : MonitorStart(m)
  \/ \E builds \in MonitorBuilds : MonitorResolves(builds)
  \/ \E msg \in ErrorMessages : MonitorRejects(msg)

NextInterleaved ==
  \/ NextAnalyzeInFlight
  \/ NextMonitorInFlight

SpecInterleaved == Init /\ [][NextInterleaved]_vars

(***************************************************************************)
(* Two streaming analysis requests served at the same time.  Each          *)
(* invocation of the handler has its own res, keepAliveInterval,           *)
(* fullResponse, analysisSessionId and startTime; the invocations share    *)
(* SERVER_API_KEY and the clock.                                           *)
(***************************************************************************)
MaxConcurrentEvents == 2

MaxConcurrentTicks == 2

Slots == {1, 2}

ConcurrentRequests ==
  {r \in Requests :
     /\ r.stream = Str("true")
     /\ r.input_value = Str("Analyze the requirements")
     /\ r.xApiKey = Str("hdr-key")
     /\ r.api_key = Undefined
     /\ r.file_path = Undefined}

ConcurrentEvents ==
  {e \in UpstreamEvents : e.event = "end" \/ e.data = [chunk |-> "a"]}

\* clearInterval on a timer that all invocations share.
ClearIntervalOf_Shared(hs, i) ==
  [j \in Slots |->
     [hs[j] EXCEPT !.keepAliveInterval = ClearInterval(hs[j].keepAliveInterval)]]

\* clearInterval(keepAliveInterval): the timer of this invocation.
ClearIntervalOf(hs, i) ==
  [hs EXCEPT ![i].keepAliveInterval = ClearInterval(hs[i].keepAliveInterval)]

\* catch (streamError) of invocation i.
CatchOf(hs, i, msg, now) ==
  LET cleared == ClearIntervalOf(hs, i)
      h == cleared[i]
  IN  [cleared EXCEPT
         ![i].res = ResEnd(IF ~h.res.writableEnded
                             THEN ResWrite(h.res, ErrorEvent(msg, now - h.startTime))
                             ELSE h.res),
         ![i].pc = "done"]

\* The loop of invocation i was left without an exception.
FinishOf(hs, i) ==
  LET cleared == ClearIntervalOf(hs, i)
  IN  [cleared EXCEPT ![i].res = ResEnd(cleared[i].res), ![i].pc = "done"]

concurrentFrame ==
  <<SERVER_API_KEY, pc, req, res, apiKey, analysisSessionId, runOptions,
    startTime, response, fullResponse, keepAliveInterval, calls, recv, thrown,
    uploadVars, monitorVars, browserVars>>

ConcurrentStart(i, r) ==
  /\ handlers[i].pc = "idle"
  /\ Validated(r)
  /\ Truthy(getApiKey(SERVER_API_KEY, r))
  /\ useStreaming(r)
  /\ handlers' =
       [handlers EXCEPT
          ![i] = [pc |-> "opening",
                  res |-> ResWrite([NewResponse EXCEPT
                                      !.contentType = "application/x-ndjson"],
                                   StartEvent),
                  keepAliveInterval |-> SetInterval(clock),
                  fullResponse |-> Str(""),
                  analysisSessionId |-> SessionIdFor(r, clock),
                  startTime |-> clock,
                  recv |-> <<>>]]
  /\ UNCHANGED <<clock, concurrentFrame, parseVars, page>>

ConcurrentOpened(i) ==
  /\ handlers[i].pc = "opening"
  /\ handlers' = [handlers EXCEPT ![i].pc = "iterating"]
  /\ UNCHANGED <<clock, concurrentFrame, parseVars, page>>

ConcurrentOpenFails(i, msg) ==
  /\ handlers[i].pc = "opening"
  /\ handlers' = CatchOf(handlers, i, msg, clock)
  /\ UNCHANGED <<clock, concurrentFrame, parseVars, page>>

ConcurrentEvent(i, event) ==
  /\ handlers[i].pc = "iterating"
  /\ Len(handlers[i].recv) < MaxConcurrentEvents
  /\ handlers' =
       [handlers EXCEPT
          ![i].recv = Append(@, event),
          ![i].res = ResWriteAll(@, LoopWrites(event, handlers[i].analysisSessionId,
                                               clock - handlers[i].startTime)),
          ![i].fullResponse = Accumulate(@, event),
          ![i].keepAliveInterval = TimerAfterEvent(@, clock),
          ![i].pc = IF LoopContinues(event) THEN "iterating" ELSE "closing"]
  /\ UNCHANGED <<clock, concurrentFrame, parseVars, page>>

ConcurrentExhausted(i) ==
  /\ handlers[i].pc = "iterating"
  /\ handlers' = FinishOf(handlers, i)
  /\ UNCHANGED <<clock, concurrentFrame, parseVars, page>>

ConcurrentThrows(i, msg) ==
  /\ handlers[i].pc = "iterating"
  /\ handlers' = CatchOf(handlers, i, msg, clock)
  /\ UNCHANGED <<clock, concurrentFrame, parseVars, page>>

ConcurrentIteratorClosed(i) ==
  /\ handlers[i].pc = "closing"
  /\ handlers' = FinishOf(handlers, i)
  /\ UNCHANGED <<clock, concurrentFrame, parseVars, page>>

ConcurrentIteratorCloseFails(i, msg) ==
  /\ handlers[i].pc = "closing"
  /\ handlers' = CatchOf(handlers, i, msg, clock)
  /\ UNCHANGED <<clock, concurrentFrame, parseVars, page>>

TimerDueOf(i) ==
  /\ handlers[i].keepAliveInterval.state = "active"
  /\ clock >= handlers[i].keepAliveInterval.due

\* The setInterval callback of invocation i.
ConcurrentKeepAliveFire(i) ==
  /\ TimerDueOf(i)
  /\ handlers' =
       [handlers EXCEPT
          ![i].res = ResWrite(@, [type |-> "keepalive", timestamp |-> clock]),
          ![i].keepAliveInterval.due = clock + KEEPALIVE_INTERVAL]
  /\ UNCHANGED <<clock, concurrentFrame, parseVars, page>>

\* Time passes for both invocations; a due timer runs first.
ConcurrentTick ==
  /\ \E i \in Slots : handlers[i].pc \notin {"idle", "done"}
  /\ clock < MaxConcurrentTicks * TickStep
  /\ \A i \in Slots : ~TimerDueOf(i)
  /\ clock' = clock + TickStep
  /\ UNCHANGED <<handlers, concurrentFrame, parseVars, page>>

NextConcurrent ==
  \/ \E i \in Slots, r \in ConcurrentRequests : ConcurrentStart(i, r)
  \/ \E i \in Slots : ConcurrentOpened(i)
  \/ \E i \in Slots, msg \in ErrorMessages : ConcurrentOpenFails(i, msg)
  \/ \E i \in Slots, event \in ConcurrentEvents : ConcurrentEvent(i, event)
  \/ \E i \in Slots : ConcurrentExhausted(i)
  \/ \E i \in Slots, msg \in ErrorMessages : ConcurrentThrows(i, msg)
  \/ \E i \in Slots : ConcurrentIteratorClosed(i)
  \/ \E i \in Slots, msg \in ErrorMessages : ConcurrentIteratorCloseFails(i, msg)
  \/ \E i \in Slots : ConcurrentKeepAliveFire(i)
  \/ ConcurrentTick

SpecConcurrent == Init /\ [][NextConcurrent]_vars

(***************************************************************************)
(* Browser: parseAnalysisOutput.  A text is a sequence of characters; the  *)
(* character U+2022 is written "u2022".                                    *)
(***************************************************************************)
MaxParseCalls == 2

UpperCase ==
  <<"A", "B", "C", "D", "E", "F", "G", "H", "I", "J", "K", "L", "M", "N", "O",
    "P", "Q", "R", "S", "T", "U", "V", "W", "X", "Y", "Z">>
LowerCase ==
  <<"a", "b", "c", "d", "e", "f", "g", "h", "i", "j", "k", "l", "m", "n", "o",
    "p", "q", "r", "s", "t", "u", "v", "w", "x", "y", "z">>

\* Case folding of the i flag.
toLowerCase(c) ==
  IF \E k \in 1..26 : UpperCase[k] = c
    THEN LowerCase[CHOOSE k \in 1..26 : UpperCase[k] = c]
    ELSE c

\* \s
IsSpace(c) == c \in {" ", "\n", "\t"}

\* The literal pat matches in t at position p.
MatchesAt(t, p, pat, ignoreCase) ==
  /\ p + Len(pat) - 1 <= Len(t)
  /\ \A k \in 1..Len(pat) :
       IF ignoreCase THEN toLowerCase(t[p + k - 1]) = toLowerCase(pat[k])
                     ELSE t[p + k - 1] = pat[k]

\* The least of a non-empty set of positions: where a leftmost match starts
\* or a lazy quantifier stops.
Least(S) == CHOOSE q \in S : \A q2 \in S : q <= q2

\* c? : the position after an optional character.
SkipOptional(t, p, c) ==
  IF p <= Len(t) /\ toLowerCase(t[p]) = c THEN p + 1 ELSE p

\* \s* : the position after the whitespace that starts at p.
SkipSpaces(t, p) ==
  LET NotSpace(q) == q = Len(t) + 1 \/ ~IsSpace(t[q])
  IN  Least({q \in p..(Len(t) + 1) : NotSpace(q)})

\* String.prototype.trim
trim(t) ==
  IF \A k \in 1..Len(t) : IsSpace(t[k]) THEN <<>>
  ELSE LET first == CHOOSE a \in 1..Len(t) :
                      ~IsSpace(t[a]) /\ \A k \in 1..(a - 1) : IsSpace(t[k])
           last == CHOOSE b \in 1..Len(t) :
                      ~IsSpace(t[b]) /\ \A k \in (b + 1)..Len(t) : IsSpace(t[k])
       IN  SubSeq(t, first, last)

\* split(/\n/)
RECURSIVE split(_)
split(t) ==
  IF \A k \in 1..Len(t) : t[k] # "\n" THEN <<t>>
  ELSE LET nl == CHOOSE k \in 1..Len(t) :
                   t[k] = "\n" /\ \A k2 \in 1..(k - 1) : t[k2] # "\n"
       IN  <<SubSeq(t, 1, nl - 1)>> \o split(SubSeq(t, nl + 1, Len(t)))

BulletGlyphs == {"-", "u2022", "*"}

\* line.replace(/^[-•*]\s*/, '')
StripBullet(line) ==
  IF line # <<>> /\ line[1] \in BulletGlyphs
    THEN SubSeq(line, SkipSpaces(line, 2), Len(line))
    ELSE line

\* The lines are not trimmed after the bullet is taken off.
ListItems_Untrimmed(t) ==
  LET lines == split(t)
      mapped == [k \in 1..Len(lines) |-> StripBullet(lines[k])]
  IN  SelectSeq(mapped, LAMBDA line : Len(line) > 0)

\* .split(/\n/).map(line => line.replace(/^[-•*]\s*/, '').trim())
\*  .filter(line => line.length > 0)
ListItems(t) ==
  LET lines == split(t)
      mapped == [k \in 1..Len(lines) |-> trim(StripBullet(lines[k]))]
  IN  SelectSeq(mapped, LAMBDA line : Len(line) > 0)

BlankLine == <<"\n", "\n">>
GapsColon == <<"G", "a", "p", "s", ":">>
RecommendationsColon ==
  <<"R", "e", "c", "o", "m", "m", "e", "n", "d", "a", "t", "i", "o", "n",
    "s", ":">>
RecommendationColon ==
  <<"R", "e", "c", "o", "m", "m", "e", "n", "d", "a", "t", "i", "o", "n",
    ":">>
GapWord == <<"g", "a", "p">>
RecommendationWord ==
  <<"r", "e", "c", "o", "m", "m", "e", "n", "d", "a", "t", "i", "o", "n">>

\* text.match(/^(.*?)(?=\n\n|Gaps:|Recommendations:|$)/s)[1]
summaryMatch(t) ==
  LET Boundary(q) ==
        \/ q = Len(t) + 1
        \/ MatchesAt(t, q, BlankLine, FALSE)
        \/ MatchesAt(t, q, GapsColon, FALSE)
        \/ MatchesAt(t, q, RecommendationsColon, FALSE)
  IN  SubSeq(t, 1, Least({q \in 1..(Len(t) + 1) : Boundary(q)}) - 1)

\* The position after the first match of <word>s?:?\s* with the i flag, or
\* 0 when the word does not occur.
AfterMarker(t, word) ==
  IF \A p \in 1..Len(t) : ~MatchesAt(t, p, word, TRUE) THEN 0
  ELSE LET Here(p) == p = Len(t) + 1 \/ MatchesAt(t, p, word, TRUE)
           start == Least({q \in 1..(Len(t) + 1) : Here(q)})
       IN  SkipSpaces(t, SkipOptional(t, SkipOptional(t, start + Len(word), "s"), ":"))

\* text.match(/Gaps?:?\s*([\s\S]*?)(?=Recommendations?:|$)/i): whether it
\* matches, and its group 1.
gapsMatch(t) ==
  LET from == AfterMarker(t, GapWord)
      Ahead(q) ==
        \/ q = Len(t) + 1
        \/ MatchesAt(t, q, RecommendationsColon, TRUE)
        \/ MatchesAt(t, q, RecommendationColon, TRUE)
  IN  IF from = 0 THEN [matched |-> FALSE, group1 |-> <<>>]
      ELSE [matched |-> TRUE,
            group1 |-> SubSeq(t, from, Least({q \in from..(Len(t) + 1) : Ahead(q)}) - 1)]

\* text.match(/Recommendations?:?\s*([\s\S]*?)$/i): whether it matches, and
\* its group 1.
recsMatch(t) ==
  LET from == AfterMarker(t, RecommendationWord)
  IN  IF from = 0 THEN [matched |-> FALSE, group1 |-> <<>>]
      ELSE [matched |-> TRUE, group1 |-> SubSeq(t, from, Len(t))]

parseAnalysisOutput(t) ==
  IF t = <<>> THEN NoSections
  ELSE [summary |-> trim(summaryMatch(t)),
        gaps |-> IF gapsMatch(t).matched
                   THEN ListItems(gapsMatch(t).group1) ELSE <<>>,
        recommendations |-> IF recsMatch(t).matched
                              THEN ListItems(recsMatch(t).group1) ELSE <<>>]

(***************************************************************************)
(* The texts parseAnalysisOutput is called with.                           *)
(***************************************************************************)
OverviewText == <<"O", "v", "e", "r", "v", "i", "e", "w", " ", "t", "e", "x", "t">>
GapReport == <<"G", "a", "p", " ", "r", "e", "p", "o", "r", "t">>
MissingAuth == <<"M", "i", "s", "s", "i", "n", "g", " ", "a", "u", "t", "h">>
NoLogging == <<"N", "o", " ", "l", "o", "g", "g", "i", "n", "g">>
AddJWT == <<"A", "d", "d", " ", "J", "W", "T">>
AddAuditLog == <<"A", "d", "d", " ", "a", "u", "d", "i", "t", " ", "l", "o", "g">>

\* Texts of the form <summary line>, blank line, Gaps:, bulleted lines,
\* Recommendations:, bulleted lines.
StructuredDocs ==
  [summary : {OverviewText, GapReport},
   gaps : {<<MissingAuth, NoLogging>>, <<NoLogging>>},
   recommendations : {<<AddJWT, AddAuditLog>>, <<AddJWT>>},
   glyph : BulletGlyphs]

RECURSIVE Bulleted(_, _)
Bulleted(glyph, lines) ==
  IF lines = <<>> THEN <<>>
  ELSE <<"\n", glyph, " ">> \o Head(lines) \o Bulleted(glyph, Tail(lines))

Render(d) ==
  d.summary \o BlankLine \o GapsColon \o Bulleted(d.glyph, d.gaps)
    \o <<"\n">> \o RecommendationsColon \o Bulleted(d.glyph, d.recommendations)

\* Lists with trailing blanks, a bare bullet, a blank line and an indented
\* bullet.
RaggedLists ==
  <<"G", "a", "p", "s", ":", "\n", "-", " ", "a", " ", "\n", "-", " ", " ",
    "\n", " ", "\t", "\n", " ", " ", "*", " ", "b", "\n", "R", "e", "c",
    "o", "m", "m", "e", "n", "d", "a", "t", "i", "o", "n", "s", ":", "\n",
    "-", "\n", " ", "c", " ", "\t", "\n">>

FreeTexts ==
  { <<>>,
    OverviewText,
    <<"T", "h", "e", "r", "e", " ", "i", "s", " ", "a", " ", "g", "a", "p",
      " ", "h", "e", "r", "e">>,
    <<"M", "y", " ", "r", "e", "c", "o", "m", "m", "e", "n", "d", "a", "t",
      "i", "o", "n", " ", "i", "s", " ", "X">>,
    <<"P", "a", "r", "a", " ", "o", "n", "e", "\n", "\n", "P", "a", "r", "a",
      " ", "t", "w", "o">>,
    <<"I", "n", "t", "r", "o", " ", "g", "a", "p", "s", ":", " ", "n", "o",
      "n", "e">>,
    <<"I", "n", "t", "r", "o", " ", "r", "e", "c", "o", "m", "m", "e", "n",
      "d", "a", "t", "i", "o", "n", "s", ":", " ", "n", "o", "n", "e">>,
    <<"G", "A", "P", "S", ":", "\n", "-", " ", "a", "\n", "R", "E", "C", "O",
      "M", "M", "E", "N", "D", "A", "T", "I", "O", "N", "S", ":", "\n", "*",
      " ", "b">>,
    <<"R", "e", "c", "o", "m", "m", "e", "n", "d", "a", "t", "i", "o", "n",
      "s", ":", "\n", "-", " ", "r", "\n", "G", "a", "p", "s", ":", "\n",
      "-", " ", "g">>,
    <<"G", "a", "p", "s", ":", "\n", " ", " ", "-", " ", "x", "\n", "\n",
      "-", "y", "\n">>,
    <<" ", "P", "l", "a", "i", "n", " ", "\n">>,
    RaggedLists }

ParseTexts == {Render(d) : d \in StructuredDocs} \cup FreeTexts

\* One call of parseAnalysisOutput(text).
Parse ==
  /\ parseCalls < MaxParseCalls
  /\ sections' = parseAnalysisOutput(text)
  /\ parseCalls' = parseCalls + 1
  /\ UNCHANGED <<SERVER_API_KEY, analyzeVars, uploadVars, monitorVars,
                 browserVars, handlers, text, page>>

NextParse == Parse

InitParse == \E t \in ParseTexts : InitWith(t, <<>>)

SpecParse == InitParse /\ [][NextParse]_vars

(***************************************************************************)
(* The relay serving one request of any of its three kinds.                *)
(***************************************************************************)
NextRelay ==
  \/ upPc = "idle" /\ monPc = "idle" /\ Next
  \/ pc = "idle" /\ monPc = "idle" /\ NextUpload
  \/ pc = "idle" /\ upPc = "idle" /\ NextMonitor

SpecRelay == Init /\ [][NextRelay]_vars


(***************************************************************************)
(* The browser client (src/app.js): handleAnalyze with the monitor poller  *)
(* it starts and stops, and the component-status display the poller feeds. *)
(***************************************************************************)
\* Poll callbacks followed.
MaxPolls == 2
\* Analyses started from the page.
MaxAnalyses == 2

\* What fetch resolves with for a monitor poll: a response that is not ok
\* (401, 500), or the relay's {success, builds} body.
NoPollData ==
  [success |-> FALSE, builds |-> [has_vertex_builds |-> FALSE, vertex_builds |-> <<>>]]

PollResponses ==
  {[ok |-> FALSE, data |-> NoPollData]}
  \cup {[ok |-> TRUE, data |-> [success |-> TRUE, builds |-> b]] : b \in MonitorBuilds}

\* latestComponent.replace(/^Agent[- ]?/, '')
StripAgent(name) ==
  IF Len(name) >= 5 /\ SubSeq(name, 1, 5) = <<"A", "g", "e", "n", "t">>
    THEN IF Len(name) >= 6 /\ name[6] \in {"-", " "}
           THEN SubSeq(name, 7, Len(name))
           ELSE SubSeq(name, 6, Len(name))
    ELSE name

\* .replace(/[-_]/g, ' ')
ReplaceSeparators(name) ==
  [i \in DOMAIN name |-> IF name[i] \in {"-", "_"} THEN " " ELSE name[i]]

cleanName(latestComponent) == ReplaceSeparators(StripAgent(latestComponent))

\* The two texts of #currentComponent (without their leading pictograph).
CompleteText == <<"Analysis complete! Generating report...">>
ProcessingText(name) == <<"Processing: ">> \o name \o <<"...">>

\* updateComponentStatus(vertexBuilds) on the display [hidden, text]: the
\* last component's first build decides; the progress indicator is shown.
updateComponentStatus(display, vertexBuilds) ==
  IF vertexBuilds = <<>> THEN display
  ELSE LET latest == vertexBuilds[Len(vertexBuilds)]
       IN IF latest.builds = <<>> THEN display
          ELSE [hidden |-> FALSE,
                text |-> IF latest.builds[1].lastLog = "Chain End"
                           THEN CompleteText
                           ELSE ProcessingText(cleanName(latest.name))]

\* handleAnalyze with a valid form and a configured flow: the sections are
\* switched, startMonitoring(FLOW_ID) stops any poller and sets the new
\* interval, and callAnalysisAPI is awaited.  The button is disabled while
\* an analysis runs.
AnalysisStarts ==
  /\ analysisPc \in {"idle", "done", "failed"}
  /\ analyses < MaxAnalyses
  /\ analyses' = analyses + 1
  /\ monitoringInterval' = "active"
  /\ analysisPc' = "analyzing"
  /\ UNCHANGED <<SERVER_API_KEY, analyzeVars, uploadVars, monitorVars, polls,
                 streamingProgressHidden, currentComponentText, handlers,
                 parseVars, page>>

\* handleAnalyze throws before startMonitoring (the upload fails, or no flow
\* is configured): the catch stops the poller and hides the indicator.
AnalysisFailsEarly ==
  /\ analysisPc \in {"idle", "done", "failed"}
  /\ analyses < MaxAnalyses
  /\ analyses' = analyses + 1
  /\ monitoringInterval' = "null"
  /\ streamingProgressHidden' = TRUE
  /\ analysisPc' = "failed"
  /\ UNCHANGED <<SERVER_API_KEY, analyzeVars, uploadVars, monitorVars, polls,
                 currentComponentText, handlers, parseVars, page>>

\* callAnalysisAPI resolves: stopMonitoring(), the indicator is hidden.
AnalysisResolves ==
  /\ analysisPc = "analyzing"
  /\ monitoringInterval' = "null"
  /\ streamingProgressHidden' = TRUE
  /\ analysisPc' = "done"
  /\ UNCHANGED <<SERVER_API_KEY, analyzeVars, uploadVars, monitorVars, analyses,
                 polls, currentComponentText, handlers, parseVars, page>>

\* callAnalysisAPI rejects: the catch does the same and shows the error.
AnalysisRejects ==
  /\ analysisPc = "analyzing"
  /\ monitoringInterval' = "null"
  /\ streamingProgressHidden' = TRUE
  /\ analysisPc' = "failed"
  /\ UNCHANGED <<SERVER_API_KEY, analyzeVars, uploadVars, monitorVars, analyses,
                 polls, currentComponentText, handlers, parseVars, page>>

\* The interval fires: the callback issues its fetch and awaits it.
PollFire ==
  /\ monitoringInterval = "active"
  /\ Len(polls) < MaxPolls
  /\ polls' = Append(polls, [pc |-> "fetching", data |-> NoPollData])
  /\ UNCHANGED <<SERVER_API_KEY, analyzeVars, uploadVars, monitorVars, analysisPc,
                 analyses, monitoringInterval, streamingProgressHidden,
                 currentComponentText, handlers, parseVars, page>>

\* await fetch(...) resolves: a response that is not ok ends the callback,
\* otherwise response.json() is awaited.
PollFetchResolves(i, response_) ==
  /\ i \in DOMAIN polls
  /\ polls[i].pc = "fetching"
  /\ polls' = [polls EXCEPT ![i] =
                 IF response_.ok
                   THEN [pc |-> "parsing", data |-> response_.data]
                   ELSE [pc |-> "done", data |-> NoPollData]]
  /\ UNCHANGED <<SERVER_API_KEY, analyzeVars, uploadVars, monitorVars, analysisPc,
                 analyses, monitoringInterval, streamingProgressHidden,
                 currentComponentText, handlers, parseVars, page>>

\* await fetch(...) or await response.json() rejects: the catch logs it.
PollRejects(i) ==
  /\ i \in DOMAIN polls
  /\ polls[i].pc \in {"fetching", "parsing"}
  /\ polls' = [polls EXCEPT ![i] = [pc |-> "done", data |-> NoPollData]]
  /\ UNCHANGED <<SERVER_API_KEY, analyzeVars, uploadVars, monitorVars, analysisPc,
                 analyses, monitoringInterval, streamingProgressHidden,
                 currentComponentText, handlers, parseVars, page>>

\* await response.json() resolves: with success, builds and vertex_builds
\* the display is updated; the callback does not look at the interval.
PollJsonResolves(i) ==
  /\ i \in DOMAIN polls
  /\ polls[i].pc = "parsing"
  /\ LET data == polls[i].data
         display == [hidden |-> streamingProgressHidden,
                     text |-> currentComponentText]
         shown == IF data.success /\ data.builds.has_vertex_builds
                    THEN updateComponentStatus(display, data.builds.vertex_builds)
                    ELSE display
     IN /\ streamingProgressHidden' = shown.hidden
        /\ currentComponentText' = shown.text
  /\ polls' = [polls EXCEPT ![i].pc = "done"]
  /\ UNCHANGED <<SERVER_API_KEY, analyzeVars, uploadVars, monitorVars, analysisPc,
                 analyses, monitoringInterval, handlers, parseVars, page>>

NextBrowser ==
  \/ AnalysisStarts
  \/ AnalysisFailsEarly
  \/ AnalysisResolves
  \/ AnalysisRejects
  \/ PollFire
  \/ \E i \in 1..MaxPolls : \E response_ \in PollResponses : PollFetchResolves(i, response_)
  \/ \E i \in 1..MaxPolls : PollRejects(i)
  \/ \E i \in 1..MaxPolls : PollJsonResolves(i)

SpecBrowser == Init /\ [][NextBrowser]_vars

(***************************************************************************)
(* Browser: handleAnalyze with uploadFileToLangflow and callAnalysisAPI,   *)
(* step by step.  The fields fetches, uploadOutcome, streamLines, sawEnd,  *)
(* streamErrors and tokens of page record what the current run has done,   *)
(* lastClick the form as it stood at the last click, and timers the number *)
(* of interval timers set and not cleared; the download button is taken to *)
(* be disabled and hidden when the page is loaded.  A click reaches        *)
(* handleAnalyze only while the Analyze button is enabled.                 *)
(***************************************************************************)
MaxClicks == 2

MaxStreamLines == 3

WikiUrl == <<"w", "i", "k", "i", "/", "x">>
GitlabUrl == <<"g", "i", "t", "l", "a", "b", ".", "c", "o", "m", "/", "r">>
GithubUrl == <<" ", "g", "i", "t", "h", "u", "b", ".", "c", "o", "m", "/", "r">>
GithubCom == <<"g", "i", "t", "h", "u", "b", ".", "c", "o", "m">>

\* The form values and the loaded configuration at a click on Analyze;
\* page.form holds those of the last click that passed validation.
PageForms ==
  [confluenceUrl : {<<>>, WikiUrl},
   githubUrl : {<<>>, GitlabUrl, GithubUrl},
   file : {"none", "req.pdf"},
   flow_id : {Null, Str("flow-1")}]

\* String.prototype.includes
includes(t, pat) == \E p \in 1..Len(t) : MatchesAt(t, p, pat, FALSE)

\* The GitHub URL is only required to be non-empty.
ValidationFails_AnyRepository(f) ==
  \/ trim(f.confluenceUrl) = <<>> /\ f.file = "none"
  \/ trim(f.githubUrl) = <<>>

\* The three validations of handleAnalyze that return early.
ValidationFails(f) ==
  \/ trim(f.confluenceUrl) = <<>> /\ f.file = "none"
  \/ trim(f.githubUrl) = <<>>
  \/ ~includes(trim(f.githubUrl), GithubCom)

\* What the relay answers to the upload: ok with the handle, ok without
\* one, or not ok with an error body.
UploadResponses ==
  { [ok |-> TRUE, file_path |-> Str("flow1/req.pdf"), message |-> ""],
    [ok |-> TRUE, file_path |-> Undefined, message |-> ""],
    [ok |-> FALSE, file_path |-> Undefined, message |-> "File upload failed"] }

\* What the relay answers to the analysis request before any line: ok with
\* an NDJSON body, or not ok with an error body.
AnalyzeResponses ==
  { [ok |-> TRUE, message |-> ""],
    [ok |-> FALSE, message |-> "API key required"] }

StreamErrorMessage == "Stream error after 5s: fetch failed"

\* The lines the relay writes on the stream, as parsed by the client.
ClientEvents ==
  { [type |-> "start", message |-> "Analysis started..."],
    [type |-> "keepalive", timestamp |-> 30000],
    [type |-> "add_message", data |-> [text |-> "m1"]],
    [type |-> "token", data |-> Str("a")],
    [type |-> "end", session_id |-> Str("sess-1")],
    [type |-> "error", error |-> StreamErrorMessage] }

FetchErrors == {"Failed to fetch", "terminated"}

FlowIdMessage ==
  "Flow ID not configured. Please set MAIN_ANALYSIS_FLOW_ID in your environment."
TimeoutMessage ==
  "Connection timeout. The analysis is taking longer than expected. Please try again or contact support if the issue persists."

\* catch (error) of callAnalysisAPI: the message it rethrows.
Rethrown(msg) == IF msg \in {"terminated", "aborted"} THEN TimeoutMessage ELSE msg

\* The summary text of the previous run is left in place.
ClearedSummary_Kept(st) == [st EXCEPT !.cursor = FALSE]

\* elements.summaryText.textContent = ''
ClearedSummary(st) == [text |-> <<>>, cursor |-> FALSE]

\* The Analyze button stays enabled during the run.
DisabledWhileRunning_Never == FALSE

\* elements.analyzeBtn.disabled = true
DisabledWhileRunning == TRUE

\* handleAnalyze from setState({isLoading: true, error: null}) to the upload.
Begin(p, f) ==
  [p EXCEPT !.clicks = @ + 1, !.form = f, !.lastClick = f,
            !.isLoading = TRUE, !.error = Null,
            !.section = "loading", !.analyzeBtnDisabled = DisabledWhileRunning,
            !.downloadBtn = [disabled |-> TRUE, hidden |-> TRUE],
            !.summaryText = ClearedSummary(@),
            !.filePath = Null, !.fetches = <<>>, !.uploadOutcome = "none",
            !.streamLines = 0, !.sawEnd = FALSE, !.streamErrors = <<>>,
            !.tokens = <<>>]

\* The handle is forgotten and the timer left running.
TimersAfterStop_HandleOnly(n) == n

\* stopMonitoring(): clearInterval of the timer state.monitoringInterval
\* holds, if it holds one.
TimersAfterStop(n) == IF monitoringInterval = "active" THEN n - 1 ELSE n

\* catch (error) of handleAnalyze, on the page.
Caught(p, msg) ==
  [p EXCEPT !.downloadBtn = [disabled |-> TRUE, hidden |-> TRUE],
            !.isLoading = FALSE, !.error = Str(msg), !.section = "error",
            !.analyzeBtnDisabled = FALSE, !.hPc = "failed",
            !.timers = TimersAfterStop(@)]

\* The payload never names the file.
AnalyzeFetch_FileDropped(fp) == [kind |-> "analyze", file_path |-> Undefined]

\* The payload of callAnalysisAPI, as far as the file is concerned.
AnalyzeFetch(fp) ==
  [kind |-> "analyze", file_path |-> IF Truthy(fp) THEN fp ELSE Undefined]

\* handleAnalyze after the upload step: the flow id is required, the
\* results section is shown, and callAnalysisAPI sends its request.
Proceed(p, fp) ==
  IF ~Truthy(p.form.flow_id) THEN Caught(p, FlowIdMessage)
  ELSE [p EXCEPT !.section = "results",
                 !.timers = TimersAfterStop(@) + 1,
                 !.fetches = Append(@, AnalyzeFetch(fp)),
                 !.hPc = "fetching"]

\* startMonitoring(FLOW_ID) when handleAnalyze went on to the analysis;
\* stopMonitoring() and the indicator hidden when it was caught.
MonitoringAfter(p) ==
  /\ monitoringInterval' = IF p.hPc = "failed" THEN "null" ELSE "active"
  /\ streamingProgressHidden' =
       IF p.hPc = "failed" THEN TRUE ELSE streamingProgressHidden

pageFrame ==
  <<SERVER_API_KEY, analyzeVars, uploadVars, monitorVars, analysisPc, analyses,
    polls, currentComponentText, handlers>>

\* A click on Analyze that fails validation: a toast, nothing else.
ClickInvalid(f) ==
  /\ ~page.analyzeBtnDisabled
  /\ page.clicks < MaxClicks
  /\ ValidationFails(f)
  /\ page' = [page EXCEPT !.clicks = @ + 1, !.lastClick = f]
  /\ UNCHANGED <<pageFrame, monitoringInterval, streamingProgressHidden, parseVars>>

\* A valid click with a file selected: the upload request is sent.
ClickWithFile(f) ==
  /\ ~page.analyzeBtnDisabled
  /\ page.clicks < MaxClicks
  /\ ~ValidationFails(f)
  /\ f.file # "none"
  /\ page' = [Begin(page, f) EXCEPT
                !.hPc = "uploading",
                !.fetches = Append(@, [kind |-> "upload", file_path |-> Undefined]),
                !.uploadOutcome = "pending"]
  /\ UNCHANGED <<pageFrame, monitoringInterval, streamingProgressHidden, parseVars>>

\* A valid click without a file: straight on to the analysis.
ClickNoFile(f) ==
  /\ ~page.analyzeBtnDisabled
  /\ page.clicks < MaxClicks
  /\ ~ValidationFails(f)
  /\ f.file = "none"
  /\ page' = Proceed(Begin(page, f), Null)
  /\ MonitoringAfter(page')
  /\ UNCHANGED <<pageFrame, parseVars>>

\* The upload answers: not ok throws, ok gives the handle and handleAnalyze
\* goes on.
UploadResponds(r) ==
  /\ page.hPc = "uploading"
  /\ page' = IF r.ok
               THEN Proceed([page EXCEPT !.uploadedFile = r.file_path,
                                         !.filePath = r.file_path,
                                         !.uploadOutcome = "ok"],
                            r.file_path)
               ELSE Caught([page EXCEPT !.uploadOutcome = "failed"], r.message)
  /\ MonitoringAfter(page')
  /\ UNCHANGED <<pageFrame, parseVars>>

\* fetch of the upload rejects.
UploadFetchRejects(msg) ==
  /\ page.hPc = "uploading"
  /\ page' = Caught([page EXCEPT !.uploadOutcome = "failed"], msg)
  /\ MonitoringAfter(page')
  /\ UNCHANGED <<pageFrame, parseVars>>

\* The analysis request answers: not ok throws, ok with NDJSON starts the
\* reader loop.
AnalyzeResponds(r) ==
  /\ page.hPc = "fetching"
  /\ page' = IF r.ok THEN [page EXCEPT !.hPc = "reading"]
             ELSE Caught(page, Rethrown(r.message))
  /\ MonitoringAfter(page')
  /\ UNCHANGED <<pageFrame, parseVars>>

\* fetch of the analysis request rejects.
AnalyzeFetchRejects(msg) ==
  /\ page.hPc = "fetching"
  /\ page' = Caught(page, Rethrown(msg))
  /\ MonitoringAfter(page')
  /\ UNCHANGED <<pageFrame, parseVars>>

\* An error line: the button is disabled and hidden, an Error is thrown
\* inside the try of the line, whose catch logs and goes on.
ErrorLine(p, event) ==
  [p EXCEPT !.downloadBtn = [disabled |-> TRUE, hidden |-> TRUE],
            !.streamErrors = Append(@, event.error)]

\* callAnalysisAPI has returned: handleAnalyze after its await, on the page.
Succeeded(p, result) ==
  [p EXCEPT !.isLoading = FALSE, !.results = result,
            !.analyzeBtnDisabled = FALSE,
            !.downloadBtn = [disabled |-> FALSE, hidden |-> FALSE],
            !.hPc = "done", !.timers = TimersAfterStop(@)]

\* elements.summaryText.textContent.replace(cursor glyph, '').trim()
streamedText(p) == trim(p.summaryText.text)

\* stopMonitoring(), the indicator hidden, and the streamed text parsed when
\* handleAnalyze has finished; nothing of it while it is still reading.
AfterLine(p) ==
  /\ monitoringInterval' = IF p.hPc = "reading" THEN monitoringInterval ELSE "null"
  /\ streamingProgressHidden' =
       IF p.hPc = "reading" THEN streamingProgressHidden ELSE TRUE
  /\ IF p.hPc = "done" /\ streamedText(p) # <<>>
       THEN /\ text' = streamedText(p)
            /\ sections' = parseAnalysisOutput(streamedText(p))
            /\ parseCalls' = parseCalls + 1
       ELSE UNCHANGED parseVars

\* One line of the stream is parsed and dispatched.  The relay ends the
\* response after its error line, so none follows one.
StreamLine(event) ==
  /\ page.hPc = "reading"
  /\ page.streamLines < MaxStreamLines
  /\ page.streamErrors = <<>>
  /\ LET p == [page EXCEPT !.streamLines = @ + 1]
     IN page' =
          CASE event.type = "token" ->
                 [p EXCEPT !.tokens = Append(@, event.data.v),
                           !.summaryText =
                             [text |-> Append(@.text, event.data.v), cursor |-> TRUE]]
            [] event.type = "end" ->
                 Succeeded([p EXCEPT !.summaryText.cursor = FALSE, !.sawEnd = TRUE],
                           Str("end"))
            [] event.type = "error" -> ErrorLine(p, event)
            [] OTHER -> p
  /\ AfterLine(page')
  /\ UNCHANGED pageFrame

\* reader.read() reports done: callAnalysisAPI returns { success: true }.
StreamDone ==
  /\ page.hPc = "reading"
  /\ page' = Succeeded(page, Str("success"))
  /\ AfterLine(page')
  /\ UNCHANGED pageFrame

\* reader.read() rejects.
StreamReadFails(msg) ==
  /\ page.hPc = "reading"
  /\ page' = Caught(page, Rethrown(msg))
  /\ AfterLine(page')
  /\ UNCHANGED pageFrame

NextPage ==
  \/ \E f \in PageForms : ClickInvalid(f)
  \/ \E f \in PageForms : ClickWithFile(f)
  \/ \E f \in PageForms : ClickNoFile(f)
  \/ \E r \in UploadResponses : UploadResponds(r)
  \/ \E msg \in FetchErrors : UploadFetchRejects(msg)
  \/ \E r \in AnalyzeResponses : AnalyzeResponds(r)
  \/ \E msg \in FetchErrors : AnalyzeFetchRejects(msg)
  \/ \E event \in ClientEvents : StreamLine(event)
  \/ StreamDone
  \/ \E msg \in FetchErrors : StreamReadFails(msg)
  \/ PollFire

SpecPage == Init /\ [][NextPage]_vars

----------------------------------------------------------------------------
\* Streaming runs alone: a valid form without a file, the analysis request
\* answered, and token lines of different data (a letter, a blank, another
\* letter) before the end line, read by the same StreamLine as on the page.

StreamForms ==
  {f \in PageForms : f.file = "none" /\ f.flow_id # Null /\ ~ValidationFails(f)}

StreamEvents ==
  { [type |-> "token", data |-> Str("a")],
    [type |-> "token", data |-> Str(" ")],
    [type |-> "token", data |-> Str("b")],
    [type |-> "end", session_id |-> Str("sess-1")] }

NextStream ==
  \/ \E f \in StreamForms : ClickNoFile(f)
  \/ \E r \in AnalyzeResponses : AnalyzeResponds(r)
  \/ \E event \in StreamEvents : StreamLine(event)
  \/ StreamDone
  \/ \E msg \in FetchErrors : StreamReadFails(msg)
  \/ PollFire

SpecStream == Init /\ [][NextStream]_vars

----------------------------------------------------------------------------
\* The reader loop of callAnalysisAPI over a body that arrives in chunks.
\* A line stands for the JSON text of an event: JSON.parse gives the event
\* back for the whole line and throws for anything else, a part of a line
\* included.

MaxWireLines == 3
MaxChunk == 3

WireEvents ==
  { [type |-> "token", data |-> Str("a")],
    [type |-> "token", data |-> Str("b")],
    [type |-> "end", session_id |-> Str("sess-1")],
    [type |-> "error", error |-> StreamErrorMessage] }

\* JSON.stringify of an event, shortened.
stringify(e) ==
  CASE e.type = "token" -> <<"{", "t", e.data.v, "}">>
    [] e.type = "end" -> <<"{", "e", "}">>
    [] e.type = "error" -> <<"{", "x", "}">>

\* The lines a body is made of: events, an empty line, a line that is not
\* JSON.
WireLines == {stringify(e) : e \in WireEvents} \cup {<<>>, <<"{">>}

WireBodies == UNION {[1..n -> WireLines] : n \in 0..MaxWireLines}

\* JSON.parse(line): the event, or Null where it throws.
parse(line) ==
  IF \E e \in WireEvents : stringify(e) = line
    THEN CHOOSE e \in WireEvents : stringify(e) = line
    ELSE Null

\* The for loop over the complete lines: blank lines are skipped, a line
\* that does not parse is logged and skipped, an end event returns, an
\* error event throws into the catch of its own line, which logs.
RECURSIVE DispatchLines(_, _)
DispatchLines(lines, acc) ==
  IF lines = <<>> THEN [dispatched |-> acc, returned |-> FALSE]
  ELSE LET line == Head(lines)
       IN  IF trim(line) = <<>> \/ parse(line) = Null
             THEN DispatchLines(Tail(lines), acc)
           ELSE IF parse(line).type = "end"
             THEN [dispatched |-> Append(acc, parse(line)), returned |-> TRUE]
           ELSE DispatchLines(Tail(lines), Append(acc, parse(line)))

\* The incomplete line is not kept.
KeptInBuffer_Dropped(lines) == <<>>

\* buffer = lines.pop()
KeptInBuffer(lines) == lines[Len(lines)]

\* reader.read() gives the next n bytes of the body.
ReadChunk(n) ==
  LET r == page.reader
      value == SubSeq(r.stream, r.pos + 1, r.pos + n)
      lines == split(r.buffer \o value)
      d == DispatchLines(SubSeq(lines, 1, Len(lines) - 1), r.dispatched)
  IN  /\ r.rPc = "reading"
      /\ r.pos + n <= Len(r.stream)
      /\ page' = [page EXCEPT !.reader =
                    [r EXCEPT !.pos = @ + n,
                              !.buffer = KeptInBuffer(lines),
                              !.dispatched = d.dispatched,
                              !.rPc = IF d.returned THEN "returned" ELSE @,
                              !.splitLine = @ \/ value[n] # "\n"]]
      /\ UNCHANGED <<pageFrame, parseVars, monitoringInterval, streamingProgressHidden>>

\* reader.read() reports done: the loop is left and { success: true }
\* returned.
ReadDone ==
  /\ page.reader.rPc = "reading"
  /\ page.reader.pos = Len(page.reader.stream)
  /\ page' = [page EXCEPT !.reader.rPc = "returned"]
  /\ UNCHANGED <<pageFrame, parseVars, monitoringInterval, streamingProgressHidden>>

InitReader == \E ls \in WireBodies : InitWith(<<>>, ls)

NextReader ==
  \/ \E n \in 1..MaxChunk : ReadChunk(n)
  \/ ReadDone

SpecReader == InitReader /\ [][NextReader]_vars


(***************************************************************************)
(* Properties.                                                             *)
(***************************************************************************)
IsTerminal(e) == e.type \in {"end", "error"}

Terminals(out) == {i \in DOMAIN out : IsTerminal(out[i])}

\* The streaming branch was entered: the start event has been written.
StreamStarted == res.out # <<>>

\* The elapsed milliseconds a terminal event reports.
ElapsedAt(e) == IF e.type = "end" THEN e.elapsed_ms ELSE e.elapsed_seconds * 1000

\* C1: when a streaming run has finished (the response is closed), exactly
\* one terminal event (end or error) has been written, and it is the last
\* event of the response.
C1_ExactlyOneTerminal ==
  (pc = "done" /\ StreamStarted) =>
    /\ Cardinality(Terminals(res.out)) = 1
    /\ IsTerminal(res.out[Len(res.out)])

\* C2: no keepalive event is written after a terminal event: the timer's
\* callback does not run once end or error has been written.
C2_NoKeepaliveAfterTerminal ==
  \A i \in DOMAIN res.out : \A j \in DOMAIN res.out :
    (i < j /\ IsTerminal(res.out[i])) => res.out[j].type # "keepalive"

\* C3: when an upload request whose file was stored has finished, the
\* temporary file is gone and unlinkSync was called for it exactly once.
C3_TempFileDeletedOnce ==
  (upPc = "done" /\ upReq.file # <<>>) =>
    /\ upReq.file[1].path \notin disk
    /\ Cardinality({i \in DOMAIN unlinks : unlinks[i] = upReq.file[1].path}) = 1

\* The failure after the deletion: the upstream answered, the file was
\* deleted, and reading the answer threw.
C3_Witness ==
  /\ upPc = "done"
  /\ upReq.file # <<>>
  /\ upCalls # <<>>
  /\ upRes.statusCode = 500
  /\ upRes.json[1].details = "Cannot read properties of null (reading 'file_path')"
  /\ unlinks = <<upReq.file[1].path>>

\* No credential is configured and the caller supplies none.
NoCredential ==
  /\ ~Truthy(SERVER_API_KEY)
  /\ ~Truthy(req.xApiKey)
  /\ ~Truthy(req.api_key)

\* C4: a request without any credential is answered 401 in either mode, with
\* no upstream call and no NDJSON event.
C4_NoCredential401 ==
  (pc # "idle" /\ NoCredential) =>
    /\ pc = "done"
    /\ res.statusCode = 401
    /\ Len(res.json) = 1
    /\ res.json[1] = [error |-> "API key required"]
    /\ calls = <<>>
    /\ res.out = <<>>
    /\ keepAliveInterval = NoTimer

C4_Witness ==
  /\ pc = "done"
  /\ NoCredential
  /\ useStreaming(req)
  /\ Truthy(req.input_value)
  /\ res.statusCode = 401

\* C5: with a credential, a request whose input_value is absent or empty is
\* answered 400; no start event, no timer, no upstream call.
C5_MissingInput400 ==
  (/\ pc # "idle"
   /\ ~NoCredential
   /\ req.input_value \in {Undefined, Str("")}) =>
    /\ pc = "done"
    /\ res.statusCode = 400
    /\ Len(res.json) = 1
    /\ res.out = <<>>
    /\ keepAliveInterval = NoTimer
    /\ calls = <<>>

C5_Witness ==
  /\ pc = "done"
  /\ ~NoCredential
  /\ req.input_value = Str("")
  /\ useStreaming(req)
  /\ res.statusCode = 400

\* C6: when the handler has finished, the keep-alive timer is not active.
C6_TimerCancelledWhenDone ==
  pc = "done" => keepAliveInterval.state # "active"

\* A finished streaming run whose upstream call threw after events arrived.
C6_Witness ==
  /\ pc = "done"
  /\ keepAliveInterval.state = "cleared"
  /\ thrown # <<>>
  /\ recv # <<>>

RECURSIVE UpToFirstEnd(_)
UpToFirstEnd(events) ==
  IF events = <<>> \/ Head(events).event = "end" THEN <<>>
  ELSE <<Head(events)>> \o UpToFirstEnd(Tail(events))

IsForwardable(e) == e.event \in {"add_message", "token"}
IsForwarded(o) == o.type \in {"add_message", "token"}

\* The written event o carries the upstream event e.
Carries(o, e) ==
  IF o.type # e.event THEN FALSE
  ELSE IF e.event = "token" THEN o.data = Str(e.data.chunk)
  ELSE o.data = e.data

\* C8: the add_message and token events written are, in order and with the
\* same payloads, the add_message and token events received before the first
\* upstream end.
C8_ForwardedInOrder ==
  LET written == SelectSeq(res.out, IsForwarded)
      received == SelectSeq(UpToFirstEnd(recv), IsForwardable)
  IN /\ Len(written) = Len(received)
     /\ \A i \in DOMAIN written : Carries(written[i], received[i])

C8_Witness ==
  /\ pc = "done"
  /\ Len(recv) = 3
  /\ recv[1] = [event |-> "token", data |-> [chunk |-> "b"]]
  /\ recv[2] = [event |-> "token", data |-> [chunk |-> "a"]]
  /\ recv[3].event = "end"
  /\ \E i \in DOMAIN res.out : res.out[i].type = "keepalive"

\* C9: start is the first event and is written once, only for a validated
\* streaming request, and only for a request whose upstream streamed call
\* was opened.
C9_StartOnlyWhenOpened ==
  /\ \A i \in DOMAIN res.out : (res.out[i].type = "start") <=> (i = 1)
  /\ StreamStarted => (Validated(req) /\ useStreaming(req) /\ Len(calls) = 1)
  /\ (pc = "done" /\ StreamStarted) => response = "stream"

\* C10: when the upstream call of a streaming run threw, one error event was
\* written, carrying the elapsed seconds and the message; it is the last
\* event, the response is ended, and no status or JSON body was sent.
C10_ErrorEventOnThrow ==
  (pc = "done" /\ StreamStarted /\ thrown # <<>>) =>
    LET last == res.out[Len(res.out)]
    IN /\ Cardinality({i \in DOMAIN res.out : res.out[i].type = "error"}) = 1
       /\ last.type = "error"
       /\ last.elapsed_seconds = RoundSeconds(clock - startTime)
       /\ last.error = "Stream error after " \o ToString(last.elapsed_seconds)
                         \o "s: " \o thrown[1]
       /\ res.writableEnded
       /\ res.statusCode = 200
       /\ res.json = <<>>
       /\ res.contentType = "application/x-ndjson"

\* The upstream threw in mid-stream, some time after the start.
C10_Witness ==
  /\ pc = "done"
  /\ StreamStarted
  /\ thrown # <<>>
  /\ recv # <<>>
  /\ clock > startTime
  /\ res.out[Len(res.out)].type = "error"

\* A streaming request that passed the credential and input checks and whose
\* upstream streamed call never opened.
FailedBeforeOpen ==
  /\ pc = "done"
  /\ useStreaming(req)
  /\ Truthy(apiKey)
  /\ ~InputMissing(req)
  /\ response = "unset"

\* C11: a streaming request that fails before the upstream stream delivers
\* anything, in particular one whose upstream streamed call fails to open, is
\* answered by a single JSON error body with status 500 and no NDJSON event.
C11_EarlyErrorJson500 ==
  FailedBeforeOpen =>
    /\ res.statusCode = 500
    /\ Len(res.json) = 1
    /\ res.json[1].error = "Analysis failed"
    /\ res.out = <<>>

\* The upstream event sequence of a streaming request is over: `end` was
\* received, or the loop was left by exhaustion or by an exception.
UpstreamOver ==
  /\ StreamStarted
  /\ \/ \E i \in DOMAIN recv : recv[i].event = "end"
     \/ pc = "done"

\* C12: once the upstream event sequence of a streaming request is over (end,
\* exhaustion or exception), the response is eventually ended.
C12_EventuallyClosed == UpstreamOver ~> res.writableEnded

\* The response was ended after the upstream `end` and the close of the
\* iterator.
C12_Witness ==
  /\ pc = "done"
  /\ recv # <<>>
  /\ recv[Len(recv)].event = "end"
  /\ thrown = <<>>
  /\ res.writableEnded
  /\ res.out[Len(res.out)].type = "end"

\* C13: a validated non-streaming request issues one blocking upstream call
\* and is answered once: with the JSON body {success, session_id,
\* elapsed_ms, response} carrying the upstream result as received, or with a
\* JSON error body and status 500 when the call failed.  No NDJSON line is
\* written and no keep-alive timer is created.
C13_NonStreamingSingleResponse ==
  (pc # "idle" /\ Validated(req) /\ ~useStreaming(req)) =>
    /\ Len(calls) = 1
    /\ calls[1].op = "run"
    /\ res.out = <<>>
    /\ keepAliveInterval = NoTimer
    /\ pc = "running" => (res.json = <<>> /\ ~res.headersSent)
    /\ pc = "done" =>
         /\ Len(res.json) = 1
         /\ res.writableEnded
         /\ res.contentType = "application/json"
         /\ IF thrown = <<>>
              THEN /\ res.statusCode = 200
                   /\ DOMAIN res.json[1] =
                        {"success", "session_id", "elapsed_ms", "response"}
                   /\ res.json[1].success = TRUE
                   /\ res.json[1].session_id = analysisSessionId
                   /\ res.json[1].elapsed_ms = clock - startTime
                   /\ Len(recv) = 1
                   /\ res.json[1].response = recv[1].data
              ELSE /\ res.statusCode = 500
                   /\ res.json[1] = [error |-> "Analysis failed", details |-> thrown[1]]

\* A non-streaming run answered with the second of the upstream results, some
\* time after it was started.
C13_Witness ==
  /\ pc = "done"
  /\ Validated(req)
  /\ ~useStreaming(req)
  /\ thrown = <<>>
  /\ clock > startTime
  /\ res.statusCode = 200
  /\ res.json[1].response = [outputs |-> "no gaps"]

\* The file part is one the upload middleware refuses.
Refused(part) ==
  \/ part.mimetype \notin allowedMimes
  \/ part.size > MAX_FILE_SIZE

\* C14: an upload whose MIME type is not allowed or whose size exceeds the
\* limit is answered with status 400, and no upstream call is made for it.
C14_RefusedUpload400 ==
  (upPc # "idle" /\ upReq.part # <<>> /\ Refused(upReq.part[1])) =>
    /\ upPc = "done"
    /\ upRes.statusCode = 400
    /\ upCalls = <<>>

\* No credential is configured and the upload request carries none.
UploadNoCredential ==
  /\ ~Truthy(SERVER_API_KEY)
  /\ ~Truthy(upReq.xApiKey)
  /\ ~Truthy(upReq.api_key)

\* C15: an upload with an accepted file but no credential is answered 401,
\* and an upload without a file is answered 400; in both cases no upstream
\* storage call is made.
C15_UploadRejections ==
  /\ (upPc # "idle" /\ upReq.file # <<>> /\ UploadNoCredential) =>
       /\ upCalls = <<>>
       /\ upPc # "handler" =>
            /\ upPc = "done"
            /\ upRes.statusCode = 401
            /\ upRes.json = <<[error |-> "API key required"]>>
  /\ (upPc # "idle" /\ upReq.part = <<>>) =>
       /\ upCalls = <<>>
       /\ upPc # "handler" =>
            /\ upPc = "done"
            /\ upRes.statusCode = 400
            /\ upRes.json = <<[error |-> "No file uploaded"]>>

\* An accepted file was stored and the request was answered 401.
C15_Witness ==
  /\ upPc = "done"
  /\ upReq.file # <<>>
  /\ UploadNoCredential
  /\ upRes.statusCode = 401
  /\ upCalls = <<>>

\* C16: no request is retried.  A request of any kind issues at most one
\* upstream call; an analysis whose call failed has failed once and ends
\* with the error event (streaming) or with 500 and the error detail; an
\* upload or monitor request that issued its call ends either with its
\* success body or with 500 and the error detail.
C16_NoRetry ==
  /\ Len(calls) <= 1
  /\ Len(upCalls) <= 1
  /\ Len(monCalls) <= 1
  /\ thrown # <<>> =>
       /\ pc = "done"
       /\ Len(thrown) = 1
       /\ Len(calls) = 1
       /\ IF useStreaming(req)
            THEN res.out[Len(res.out)].type = "error"
            ELSE /\ res.statusCode = 500
                 /\ res.json = <<[error |-> "Analysis failed", details |-> thrown[1]]>>
  /\ (upPc = "done" /\ upCalls # <<>>) =>
       /\ Len(upRes.json) = 1
       /\ \/ upRes.statusCode = 200 /\ upRes.json[1].success
          \/ /\ upRes.statusCode = 500
             /\ upRes.json[1].error = "File upload failed"
             /\ upRes.json[1].details # ""
  /\ (monPc = "done" /\ monCalls # <<>>) =>
       /\ Len(monRes.json) = 1
       /\ \/ monRes.statusCode = 200 /\ monRes.json[1].success
          \/ /\ monRes.statusCode = 500
             /\ monRes.json[1].error = "Failed to get monitor data"
             /\ monRes.json[1].details \in ErrorMessages

\* A non-streaming analysis whose only upstream call failed.
C16_Witness ==
  /\ pc = "done"
  /\ ~useStreaming(req)
  /\ Len(calls) = 1
  /\ thrown = <<"fetch failed">>
  /\ res.statusCode = 500

\* The session identifier the caller is entitled to: its own when it gave
\* one, else analysis_<time of receipt>.
ExpectedSessionId ==
  IF req.session_id # Undefined
    THEN req.session_id
    ELSE Str("analysis_" \o ToString(startTime))

\* C17: for every analysis request that passed validation the session
\* identifier is the caller's when one was given and analysis_<timestamp>
\* otherwise; that identifier is the one in the options of the upstream
\* call, in the end event (streaming) and in the JSON body (non-streaming).
C17_SessionIdPassedThrough ==
  (pc # "idle" /\ Validated(req)) =>
    /\ analysisSessionId = ExpectedSessionId
    /\ Len(calls) = 1
    /\ calls[1].options.session_id = ExpectedSessionId
    /\ \A i \in DOMAIN res.out :
         res.out[i].type = "end" => res.out[i].session_id = ExpectedSessionId
    /\ (~useStreaming(req) /\ pc = "done" /\ thrown = <<>>) =>
         res.json[1].session_id = ExpectedSessionId

\* A streaming run with a caller-supplied identifier that reached its end
\* event.
C17_Witness ==
  /\ pc = "done"
  /\ useStreaming(req)
  /\ req.session_id = Str("sess-1")
  /\ Len(calls) = 1
  /\ calls[1].options.session_id = Str("sess-1")
  /\ \E i \in DOMAIN res.out :
       res.out[i].type = "end" /\ res.out[i].session_id = Str("sess-1")

\* C18: the options of the upstream call hold the component-override map,
\* with the request's file path unchanged under the File component's key,
\* exactly when the request gave a file path; it is in the options when the
\* call is issued, and without a file path no override map is sent.
C18_FileTweakIffSupplied ==
  \A i \in DOMAIN calls :
    /\ calls[i].options = runOptions
    /\ IF req.file_path # Undefined
         THEN /\ DOMAIN calls[i].options = {"session_id", "tweaks"}
              /\ calls[i].options.tweaks =
                   [File_hqkLd |-> [path |-> <<req.file_path>>]]
         ELSE DOMAIN calls[i].options = {"session_id"}

\* A streamed call issued with the file path of the request in its options.
C18_Witness ==
  /\ Len(calls) = 1
  /\ calls[1].op = "stream"
  /\ req.file_path = Str("flow1/req.pdf")
  /\ "tweaks" \in DOMAIN calls[1].options
  /\ calls[1].options.tweaks.File_hqkLd.path = <<Str("flow1/req.pdf")>>

\* Lines that forward upstream events or keep the connection alive.
IsRelayed(o) == o.type \in {"add_message", "token", "keepalive"}

\* C19: after the caller has disconnected, the first write that fails is the
\* last write of an add_message, token or keepalive line the relay attempts,
\* and from that write on the keep-alive timer is not active.
C19_StopsAfterDisconnect ==
  /\ \A i \in DOMAIN res.lost : \A j \in DOMAIN res.lost :
       i < j => ~IsRelayed(res.lost[j])
  /\ res.lost # <<>> => keepAliveInterval.state # "active"

\* C20: while the monitor poller is stopped, no poll response updates the
\* component-status display: the progress indicator is not shown again and
\* the current-component text does not change.
C20_StalePollDiscarded ==
  [][(monitoringInterval = "null" /\ monitoringInterval' = "null") =>
       /\ streamingProgressHidden => streamingProgressHidden'
       /\ currentComponentText' = currentComponentText]_vars

\* C21: every step of the monitor handler, at whatever point of an analysis
\* request it is taken, leaves the analysis request as it is (position,
\* keep-alive timer, response, accumulator, calls); and a monitor request
\* answered 200 carries {success, builds} with builds as the upstream
\* monitor answered it.
C21_MonitorLeavesAnalysisAlone ==
  /\ [][monitorVars' # monitorVars => UNCHANGED <<SERVER_API_KEY, analyzeVars>>]_vars
  /\ [](monRes.statusCode = 200 /\ monPc = "done" =>
          /\ Len(monRecv) = 1
          /\ monRes.json = <<[success |-> TRUE, builds |-> monRecv[1]]>>)

\* A monitor request answered with success, and without vertex_builds,
\* while the analysis request has forwarded an event and still iterates with
\* its timer armed.
C21_Witness ==
  /\ monPc = "done"
  /\ monRes.statusCode = 200
  /\ monRecv = <<[has_vertex_builds |-> FALSE, vertex_builds |-> <<>>]>>
  /\ pc = "iterating"
  /\ recv # <<>>
  /\ keepAliveInterval.state = "active"

\* C22: of two streaming analysis requests in flight at the same time, a
\* step that changes one (an event forwarded, a keepalive, a terminal
\* event, its timer cancelled) leaves the other's timer, accumulator,
\* session identifier and emitted events unchanged, and no step writes the
\* credential they share.
C22_ConcurrentRequestsIndependent ==
  [][/\ \A i, j \in Slots :
          i # j /\ handlers'[i] # handlers[i] => handlers'[j] = handlers[j]
     /\ SERVER_API_KEY' = SERVER_API_KEY]_vars

\* Request 1 has ended after an error, its timer cancelled, while request 2
\* is still iterating with its timer armed, an event forwarded and a
\* keepalive written.
C22_Witness ==
  /\ handlers[1].pc = "done"
  /\ handlers[1].keepAliveInterval.state = "cleared"
  /\ \E k \in 1..Len(handlers[1].res.out) : handlers[1].res.out[k].type = "error"
  /\ handlers[2].pc = "iterating"
  /\ handlers[2].keepAliveInterval.state = "active"
  /\ handlers[2].recv # <<>>
  /\ \E k \in 1..Len(handlers[2].res.out) : handlers[2].res.out[k].type = "keepalive"

(***************************************************************************)
(* parseAnalysisOutput: what the result is said to be.                     *)
(***************************************************************************)
\* The literal occurs in t, in any letter case.
Contains(t, pat) == \E p \in 1..Len(t) : MatchesAt(t, p, pat, TRUE)

\* The position of the first occurrence of pat in t in any letter case
\* from p on, or the end of t.
FirstOccurrence(t, p, pat) ==
  LET Here(q) == q = Len(t) + 1 \/ MatchesAt(t, q, pat, TRUE)
  IN  Least({q \in p..(Len(t) + 1) : Here(q)})

\* A line without its surrounding whitespace and one leading bullet glyph.
Unbulleted(line) ==
  LET l == trim(line)
  IN  IF l # <<>> /\ l[1] \in BulletGlyphs THEN trim(Tail(l)) ELSE l

\* The lines of t without bullets, empty lines dropped, in order.
UnbulletedLines(t) ==
  LET lines == split(t)
  IN  SelectSeq([k \in 1..Len(lines) |-> Unbulleted(lines[k])],
                LAMBDA line : line # <<>>)

\* C23: a second call of parseAnalysisOutput on the same text returns what
\* the first returned, and for a text of the form summary line, blank
\* line, Gaps:, bulleted lines, Recommendations:, bulleted lines the result
\* is the summary line, the gap lines and the recommendation lines, each
\* list without bullets and in order.
C23_StructuredTextParsed ==
  /\ [][parseCalls > 0 => sections' = sections]_vars
  /\ [](\A d \in StructuredDocs :
          parseCalls > 0 /\ text = Render(d) =>
            sections = [summary |-> d.summary, gaps |-> d.gaps,
                        recommendations |-> d.recommendations])

\* C24: for a text with no Gaps: and no Recommendations: marker the result
\* has no gaps, no recommendations, and the whole text (trimmed) as its
\* summary.
C24_MarkerFreeText ==
  parseCalls > 0 /\ ~Contains(text, GapsColon)
                 /\ ~Contains(text, RecommendationsColon) =>
    sections = [summary |-> trim(text), gaps |-> <<>>, recommendations |-> <<>>]

\* C25: for a non-empty text the summary is the trimmed prefix that ends at
\* the first blank line, the first Gaps: in any letter case, the first
\* Recommendations: in any letter case, or the end of the text, whichever
\* comes first.
C25_SummaryPrefix ==
  parseCalls > 0 /\ text # <<>> =>
    LET Boundary(q) ==
          \/ q = Len(text) + 1
          \/ MatchesAt(text, q, BlankLine, FALSE)
          \/ MatchesAt(text, q, GapsColon, TRUE)
          \/ MatchesAt(text, q, RecommendationsColon, TRUE)
    IN  sections.summary = trim(SubSeq(text, 1, Least({q \in 1..(Len(text) + 1) : Boundary(q)}) - 1))

\* C26: the gaps are the lines between the first Gaps: marker (any letter
\* case) and the next Recommendations: marker or the end of the text,
\* without bullets and empty lines, in order; there are none when the text
\* has no Gaps: marker.
C26_GapsList ==
  parseCalls > 0 =>
    sections.gaps =
      IF ~Contains(text, GapsColon) THEN <<>>
      ELSE LET from == FirstOccurrence(text, 1, GapsColon) + Len(GapsColon)
               to == FirstOccurrence(text, from, RecommendationsColon)
           IN  UnbulletedLines(SubSeq(text, from, to - 1))

\* C27: the recommendations are the lines from the first Recommendations:
\* marker (any letter case) to the end of the text, without bullets and
\* empty lines, in order; there are none when the text has no
\* Recommendations: marker.
C27_RecommendationsList ==
  parseCalls > 0 =>
    sections.recommendations =
      IF ~Contains(text, RecommendationsColon) THEN <<>>
      ELSE LET from == FirstOccurrence(text, 1, RecommendationsColon)
                         + Len(RecommendationsColon)
           IN  UnbulletedLines(SubSeq(text, from, Len(text)))

(***************************************************************************)
(* handleAnalyze: how a run ends.                                          *)
(***************************************************************************)
Finished == page.hPc \in {"done", "failed"}

\* C28: a run in which the client received an error line ends in the error
\* state: state.error is that line's message, the error section is shown,
\* and the run is not a success.
C28_ErrorEventRejects ==
  Finished /\ page.streamErrors # <<>> =>
    /\ page.hPc = "failed"
    /\ page.error = Str(page.streamErrors[1])
    /\ page.section = "error"

\* C29: when handleAnalyze has finished, the download button is enabled or
\* visible only if the run received an end line.
C29_DownloadOnlyAfterEnd ==
  Finished /\ (~page.downloadBtn.disabled \/ ~page.downloadBtn.hidden) =>
    page.sawEnd

\* C30: with a file selected, the analysis request is sent only after the
\* upload has answered ok, and it carries the handle the upload returned
\* (none when the upload returned none); while the upload is pending or
\* after it failed no analysis request has been sent, and after it failed
\* handleAnalyze is in its error state, no poller is set and no poll starts.
C30_AnalysisAfterUpload ==
  /\ [](\A k \in 1..Len(page.fetches) :
          page.fetches[k].kind = "analyze" /\ page.form.file # "none" =>
            /\ page.uploadOutcome = "ok"
            /\ k = 2 /\ page.fetches[1].kind = "upload"
            /\ page.fetches[k].file_path =
                 IF Truthy(page.uploadedFile) THEN page.uploadedFile ELSE Undefined)
  /\ [](page.uploadOutcome \in {"pending", "failed"} =>
          /\ \A k \in 1..Len(page.fetches) : page.fetches[k].kind # "analyze"
          /\ monitoringInterval = "null")
  /\ [](page.uploadOutcome = "failed" => page.hPc = "failed")
  /\ [][page.uploadOutcome \in {"pending", "failed"} => polls' = polls]_vars

\* The upload answered ok with a handle and the analysis request that
\* followed carries it; its stream is being read and the poller is set.
C30_Witness ==
  /\ page.hPc = "reading"
  /\ page.uploadOutcome = "ok"
  /\ page.fetches = <<[kind |-> "upload", file_path |-> Undefined],
                      [kind |-> "analyze", file_path |-> Str("flow1/req.pdf")]>>
  /\ monitoringInterval = "active"

\* handleAnalyze is between its validation and its end.
InFlight == page.hPc \in {"uploading", "fetching", "reading"}

\* C31: at most one monitor polling timer is live at any moment, and when
\* handleAnalyze has finished none is live and state.monitoringInterval is
\* null.
C31_OnePollingTimer ==
  /\ page.timers <= 1
  /\ page.timers = 1 <=> monitoringInterval = "active"
  /\ Finished => page.timers = 0 /\ monitoringInterval = "null"

\* A second run has finished in the error state after its poller was set
\* (its analysis request had been sent).
C31_Witness ==
  /\ page.clicks = 2
  /\ page.hPc = "failed"
  /\ \E k \in 1..Len(page.fetches) : page.fetches[k].kind = "analyze"
  /\ page.timers = 0
  /\ polls # <<>>

\* C32: while handleAnalyze is between validation and its end the Analyze
\* button is disabled and state.isLoading is true, so a run starts only
\* when none is in flight; when it has finished the button is enabled and
\* isLoading is false.
C32_ButtonDisabledWhileRunning ==
  /\ [](InFlight => page.analyzeBtnDisabled /\ page.isLoading)
  /\ [](Finished => ~page.analyzeBtnDisabled /\ ~page.isLoading)
  /\ [][page'.clicks # page.clicks => ~InFlight]_vars

\* An upload is awaited with the button disabled, in a second run.
C32_Witness ==
  /\ page.hPc = "uploading"
  /\ page.clicks = 2
  /\ page.analyzeBtnDisabled
  /\ page.isLoading

\* The form has neither a Confluence URL nor a file, or its GitHub URL is
\* empty or does not contain github.com.
FormInvalid(f) ==
  \/ trim(f.confluenceUrl) = <<>> /\ f.file = "none"
  \/ trim(f.githubUrl) = <<>>
  \/ \A p \in 1..Len(f.githubUrl) : ~MatchesAt(f.githubUrl, p, GithubCom, FALSE)

\* C33: a click with an invalid form sends no request, starts no poll and
\* leaves the loading, result and error state, the sections and the
\* buttons as they were.
C33_InvalidFormNoEffect ==
  [][page'.clicks # page.clicks /\ FormInvalid(page'.lastClick) =>
       /\ page'.fetches = page.fetches
       /\ page'.isLoading = page.isLoading
       /\ page'.results = page.results
       /\ page'.error = page.error
       /\ page'.section = page.section
       /\ page'.analyzeBtnDisabled = page.analyzeBtnDisabled
       /\ page'.downloadBtn = page.downloadBtn
       /\ page'.hPc = page.hPc
       /\ UNCHANGED <<monitoringInterval, polls, parseVars>>]_vars

\* After a finished successful run, a click with a GitHub URL that does not
\* name github.com has been turned down.
C33_Witness ==
  /\ page.clicks = 2
  /\ page.lastClick.githubUrl = GitlabUrl
  /\ page.lastClick.file = "req.pdf"
  /\ page.hPc = "done"
  /\ page.fetches # <<>>


----------------------------------------------------------------------------
\* C34: when a streaming run finishes with an end line, the text handed to
\* parseAnalysisOutput is the trimmed concatenation, in arrival order, of
\* the data of the token lines of that run and of nothing else (an empty
\* one is not handed over at all); page.tokens records those data.
C34_ParsedTextIsThisRunsTokens ==
  [][ (page.hPc = "reading" /\ page'.hPc = "done" /\ page'.sawEnd)
        => IF trim(page'.tokens) # <<>>
             THEN /\ text' = trim(page'.tokens)
                  /\ sections' = parseAnalysisOutput(trim(page'.tokens))
                  /\ parseCalls' = parseCalls + 1
             ELSE UNCHANGED parseVars ]_vars

\* A second run has ended after a blank and a letter, the first one having
\* handed over its own text.
C34_Witness ==
  /\ page.clicks = 2
  /\ page.hPc = "done"
  /\ page.sawEnd
  /\ page.tokens = <<" ", "b">>
  /\ text = <<"b">>
  /\ parseCalls = 2



----------------------------------------------------------------------------
\* The events of the lines ls in order, up to the first end event.
RECURSIVE EventsOf(_)
EventsOf(ls) ==
  IF ls = <<>> THEN <<>>
  ELSE IF \A e \in WireEvents : stringify(e) # Head(ls) THEN EventsOf(Tail(ls))
  ELSE LET e == CHOOSE x \in WireEvents : stringify(x) = Head(ls)
       IN  IF e.type = "end" THEN <<e>> ELSE <<e>> \o EventsOf(Tail(ls))

\* The bytes received after the last newline received.
TrailingLine(r) ==
  LET got == SubSeq(r.stream, 1, r.pos)
      nls == {k \in 1..r.pos : got[k] = "\n"}
      last == IF nls = {} THEN 0 ELSE CHOOSE k \in nls : \A k2 \in nls : k2 <= k
  IN  SubSeq(got, last + 1, r.pos)

\* C35: however the body is cut into chunks, the events dispatched are the
\* events of its lines in order, each once: at any moment a prefix of them,
\* all of them (up to the end event) when the reader loop is left, and
\* while reading the buffer holds exactly the incomplete trailing line.
C35_ChunkingDoesNotMatter ==
  LET r == page.reader
      all == EventsOf(r.sent)
  IN  /\ Len(r.dispatched) <= Len(all)
      /\ r.dispatched = SubSeq(all, 1, Len(r.dispatched))
      /\ r.rPc = "returned" => r.dispatched = all
      /\ r.rPc = "reading" => r.buffer = TrailingLine(r)

\* Two tokens and the end event dispatched from a body of which some chunk
\* ended inside a line.
C35_Witness ==
  LET r == page.reader
  IN  /\ r.rPc = "returned"
      /\ r.splitLine
      /\ Len(r.dispatched) = 3
      /\ r.dispatched[1].type = "token" /\ r.dispatched[1].data = Str("b")
      /\ r.dispatched[2].type = "token" /\ r.dispatched[2].data = Str("a")
      /\ r.dispatched[3].type = "end"



----------------------------------------------------------------------------
\* C36: in the step that sends a response of POST /api/upload-file for a
\* request whose file multer stored, the temporary file is already deleted:
\* it is off the disk and its unlinkSync is logged when the response (the
\* 200, the 401 or the 500) goes out, and it never comes back afterwards.
C36_DeletedBeforeResponse ==
  /\ [][ (~upRes.headersSent /\ upRes'.headersSent /\ upReq'.file # <<>>)
           => /\ upRes'.statusCode \in {200, 401, 500}
              /\ upReq'.file[1].path \notin disk'
              /\ \E i \in DOMAIN unlinks' : unlinks'[i] = upReq'.file[1].path ]_vars
  /\ [][ (upRes.headersSent /\ upReq.file # <<>>)
           => upReq.file[1].path \notin disk' ]_vars

\* The upstream store refused the upload: 500 answered, the stored file
\* gone.
C36_Witness ==
  /\ upPc = "done"
  /\ upReq.file # <<>>
  /\ upCalls # <<>>
  /\ upRes.headersSent
  /\ upRes.statusCode = 500
  /\ upRes.json[1].details \in ErrorMessages
  /\ upReq.file[1].path \notin disk
  /\ unlinks = <<upReq.file[1].path>>



----------------------------------------------------------------------------
\* C37: the credential of a request is the configured one whenever one is
\* configured, whatever the caller sent; otherwise the x-api-key header;
\* otherwise the api_key query parameter; it is null exactly when all three
\* are absent, and it is the credential every upstream call is made with.
C37_CredentialPrecedence ==
  pc # "idle" =>
    /\ SERVER_API_KEY # Undefined => apiKey = SERVER_API_KEY
    /\ (SERVER_API_KEY = Undefined /\ req.xApiKey # Undefined)
         => apiKey = req.xApiKey
    /\ (SERVER_API_KEY = Undefined /\ req.xApiKey = Undefined
          /\ req.api_key # Undefined) => apiKey = req.api_key
    /\ apiKey = Null <=> /\ SERVER_API_KEY = Undefined
                         /\ req.xApiKey = Undefined
                         /\ req.api_key = Undefined
    /\ apiKey = Null => res.statusCode = 401
    /\ \A i \in DOMAIN calls : calls[i].apiKey = apiKey

\* A request that brought a header and a query credential was served with
\* the configured one.
C37_Witness ==
  /\ pc = "done"
  /\ SERVER_API_KEY = Str("srv-key")
  /\ req.xApiKey = Str("hdr-key")
  /\ req.api_key = Str("qry-key")
  /\ apiKey = Str("srv-key")
  /\ calls # <<>>
  /\ calls[1].apiKey = Str("srv-key")



----------------------------------------------------------------------------
\* A list item: not empty, no whitespace at either end.
CleanItem(item) ==
  /\ item # <<>>
  /\ ~IsSpace(item[1])
  /\ ~IsSpace(item[Len(item)])

\* C38: every element of the gaps and recommendations lists that
\* parseAnalysisOutput returns is a non-empty string without leading or
\* trailing whitespace, and for the empty text it returns the empty
\* summary and two empty lists.
C38_ListItemsClean ==
  parseCalls > 0 =>
    /\ \A i \in DOMAIN sections.gaps : CleanItem(sections.gaps[i])
    /\ \A i \in DOMAIN sections.recommendations :
         CleanItem(sections.recommendations[i])
    /\ text = <<>> =>
         sections = [summary |-> <<>>, gaps |-> <<>>, recommendations |-> <<>>]

\* The ragged lists parsed: the blank and bare-bullet lines are gone, the
\* others are trimmed.
C38_Witness ==
  /\ parseCalls > 0
  /\ text = RaggedLists
  /\ sections.gaps = << <<"a">>, <<"*", " ", "b">> >>
  /\ sections.recommendations = << <<"c">> >>


====
